---- MODULE Spec2Model ----
(***************************************************************************)
(* A model of the Uniswap V3 math engine of this repository: the swap      *)
(* driver Math::simulate_swap (src/src/lib.rs) and the numerical layers it *)
(* is built on (bit_math, tick_bitmap, tick_math, sqrt_price_math,         *)
(* swap_math), with 256-bit arithmetic kept at full width.                 *)
(***************************************************************************)
EXTENDS Integers, Sequences, FiniteSets, Bags, TLC

\* The state of a pool and of a call of Math::simulate_swap (lib.rs).
VARIABLES
  pool,             \* the fields of Math
  overflow_checks,  \* the build: TRUE panics on integer overflow, FALSE wraps
  pc,               \* "idle", "loop" (at the loop head) or "done" (returned)
  args,             \* zero_for_one and amount_in of the call
  current_state,    \* CurrentState
  word,             \* the bitmap word held by the loop
  step,             \* StepComputations of the last completed pass
  swap_call,        \* the arguments of the last call of compute_swap_step
  iter,             \* passes of the loop so far, modulo IterMod
  calls,            \* the provider lookups of the call, with their answers
  result,           \* what the call returned
  prev,             \* lookups and result of the same call made just before
  probe             \* a direct call of a library function and its result

(***************************************************************************)
(* Unsigned integers of arbitrary size.  TLC's integers are 32 bits wide,  *)
(* so a U256 (and the 512-bit intermediate of mul_div) is a little-endian  *)
(* sequence of 8-bit limbs without high zero limbs; <<>> is zero.  The     *)
(* operators are written without recursion over the limbs (carries are     *)
(* looked ahead), because the evaluation stack is short.                   *)
(***************************************************************************)
\* Every function of the engine is reached through Invoke, a single recursive
\* operator, which keeps what TLC builds from the definitions linear in their
\* size: Invoke("f", <<a, b>>) is f(a, b).
RECURSIVE Invoke(_, _)

LimbBase == 2^8

LimbBits == CHOOSE k \in 1..15 : 2^k = LimbBase

Min(a, b) == IF a < b THEN a ELSE b

Max(a, b) == IF a < b THEN b ELSE a

\* The sum of the values of a function to the naturals, over a finite domain.
Sum(f) == BagCardinality([x \in DOMAIN f |-> f[x] + 1]) - Cardinality(DOMAIN f)

\* The index of the highest non-zero limb (0 for zero).
Top(s) == Cardinality({i \in 1..Len(s) : \E j \in i..Len(s) : s[j] # 0})

Norm(s) ==
  LET t == SubSeq(s, 1, Len(s))
  IN  SubSeq(t, 1, Top(t))

Limb(a, i) == IF 1 <= i /\ i <= Len(a) THEN a[i] ELSE 0

\* The carry into limb i of a sequence v of limb sums, each at most 2*LimbBase-2.
CarryIn(v, i) ==
  IF i = 1 THEN 0
  ELSE IF v[i-1] # LimbBase - 1 THEN (IF v[i-1] >= LimbBase THEN 1 ELSE 0)
  ELSE IF \E j \in 1..(i-2) :
            v[j] >= LimbBase /\ \A k \in (j+1)..(i-2) : v[k] = LimbBase - 1
       THEN 1 ELSE 0

Resolve(v) ==
  LET n == Len(v)
  IN  Norm([i \in 1..(n+1) |-> (Limb(v, i) + CarryIn(v, i)) % LimbBase])

\* a + b, exact.
UAdd(a, b) ==
  LET n == Max(Len(a), Len(b))
  IN  Resolve(SubSeq([i \in 1..n |-> Limb(a, i) + Limb(b, i)], 1, n))

BorrowIn(a, b, i) ==
  IF i = 1 THEN 0
  ELSE IF a[i-1] # Limb(b, i-1) THEN (IF a[i-1] < Limb(b, i-1) THEN 1 ELSE 0)
  ELSE IF \E j \in 1..(i-2) :
            a[j] < Limb(b, j) /\ \A k \in (j+1)..(i-2) : a[k] = Limb(b, k)
       THEN 1 ELSE 0

\* a - b, for a >= b.
USub(a, b) ==
  Norm([i \in 1..Len(a) |->
          (a[i] + LimbBase - Limb(b, i) - BorrowIn(a, b, i)) % LimbBase])

\* -1, 0 or 1 as a < b, a = b or a > b.
UCmp(a, b) ==
  IF Len(a) # Len(b) THEN (IF Len(a) < Len(b) THEN -1 ELSE 1)
  ELSE IF a = b THEN 0
  ELSE IF \E i \in 1..Len(a) :
            a[i] < b[i] /\ \A j \in (i+1)..Len(a) : a[j] = b[j]
       THEN -1 ELSE 1

ULt(a, b) == UCmp(a, b) < 0

ULe(a, b) == UCmp(a, b) <= 0

\* a * m for a small natural m (m < 2^15).
MulSmall(a, m) ==
  LET n == Len(a)
      p == SubSeq([i \in 1..n |-> a[i] * m], 1, n)
      lo == SubSeq([i \in 1..(n+2) |->
                      (Limb(p, i) % LimbBase)
                      + ((Limb(p, i-1) \div LimbBase) % LimbBase)], 1, n+2)
      lm == Resolve(lo)
  IN  Resolve(SubSeq([i \in 1..(n+2) |->
                        Limb(lm, i) + (Limb(p, i-2) \div (LimbBase * LimbBase))],
                     1, n+2))

\* a * b, exact (the column sums stay below 2^31 for factors of up to 64 limbs).
UMul(a, b) ==
  IF a = <<>> \/ b = <<>> THEN <<>>
  ELSE LET la == Len(a)
           lb == Len(b)
           n == la + lb
           cols == SubSeq([k \in 1..n |->
                     Sum([i \in Max(1, k+1-lb)..Min(la, k) |-> a[i] * b[k+1-i]])],
                     1, n)
           lm == Resolve(SubSeq([k \in 1..n |->
                     (cols[k] % LimbBase)
                     + ((Limb(cols, k-1) \div LimbBase) % LimbBase)], 1, n))
       IN  Resolve(SubSeq([k \in 1..n |->
                     Limb(lm, k) + (Limb(cols, k-2) \div (LimbBase * LimbBase))],
                     1, n))

\* The quotient digit q of r1 by d and the remainder r1 - q*d, for
\* r1 < d*LimbBase: an estimate from the leading limbs, which is never too
\* small, lowered until it fits.
RECURSIVE QFix(_, _, _)
QFix(r1, d, q) ==
  LET p == MulSmall(d, q)
  IN  IF UCmp(p, r1) <= 0 THEN [q |-> q, r |-> USub(r1, p)]
      ELSE QFix(r1, d, q - 1)

QDigit(r1, d) ==
  IF UCmp(r1, d) < 0 THEN [q |-> 0, r |-> r1]
  ELSE QFix(r1, d,
            Min(LimbBase - 1,
                (Limb(r1, Len(d) - 1) + Limb(r1, Len(d)) * LimbBase
                 + Limb(r1, Len(d) + 1) * LimbBase * LimbBase)
                \div (Limb(d, Len(d) - 1) + d[Len(d)] * LimbBase)))

\* Long division, one quotient limb per step, from the highest limb of a.
RECURSIVE LongDivRec(_, _, _, _, _)
LongDivPut(a, d, i, qd, q) ==
  \* the test computes the digit before the next step
  IF Len(qd.r) >= 0 THEN LongDivRec(a, d, i - 1, qd.r, <<qd.q>> \o q)
  ELSE [q |-> <<>>, r |-> <<>>]

LongDivRec(a, d, i, rem, q) ==
  IF i = 0 THEN [q |-> Norm(q), r |-> rem]
  ELSE LongDivPut(a, d, i, QDigit(Norm(<<a[i]>> \o rem), d), q)

\* Quotient and remainder of a by d, for d # 0.
UDivMod(a, d) ==
  IF UCmp(a, d) < 0 THEN [q |-> <<>>, r |-> a]
  ELSE LongDivRec(a, d, Len(a) - Len(d) + 1,
                  SubSeq(a, Len(a) - Len(d) + 2, Len(a)), <<>>)

UDiv(a, d) == Invoke("UDivMod", <<a, d>>).q

URem(a, d) == Invoke("UDivMod", <<a, d>>).r

\* a * 2^k and a \div 2^k.
UShl(a, k) ==
  LET q == k \div LimbBits
      s == k % LimbBits
  IN  Norm([i \in 1..(Len(a) + q + 1) |->
              ((Limb(a, i - q) * 2^s) % LimbBase)
              + ((Limb(a, i - q - 1) * 2^s) \div LimbBase)])

UShr(a, k) ==
  LET q == k \div LimbBits
      s == k % LimbBits
      t == SubSeq(a, q + 1, Len(a))
  IN  Norm([i \in 1..Len(t) |->
              (t[i] \div 2^s) + ((Limb(t, i+1) % 2^s) * 2^(LimbBits - s))])

\* A natural below 2^31 as limbs, and back (for values below 2^31).
U(n) == Norm([i \in 1..4 |-> (n \div LimbBase^(i-1)) % LimbBase])

ToInt(a) ==
  Limb(a, 1) + Limb(a, 2) * LimbBase + Limb(a, 3) * LimbBase^2
  + Limb(a, 4) * LimbBase^3

\* A constant from its bytes, highest first (two hex digits each).
FromBytes(bs) == Norm([i \in 1..Len(bs) |-> bs[Len(bs) + 1 - i]])

\* Bitwise operations, limb by limb.
AndLimb(x, y) ==
  Sum([b \in 0..(LimbBits - 1) |-> 2^b * ((x \div 2^b) % 2) * ((y \div 2^b) % 2)])

UBitAnd(a, b) ==
  Norm([i \in 1..Min(Len(a), Len(b)) |-> AndLimb(a[i], b[i])])

UBitOr(a, b) ==
  Norm([i \in 1..Max(Len(a), Len(b)) |->
          Limb(a, i) + Limb(b, i) - AndLimb(Limb(a, i), Limb(b, i))])

RECURSIVE UPow(_, _)
UPow(a, n) ==
  IF n = 0 THEN <<1>>
  ELSE LET p == UPow(a, n - 1)
       IN  IF Len(p) >= 0 THEN UMul(a, p) ELSE <<>>

(***************************************************************************)
(* U256 (ruint) and I256 (a U256 read as two's complement): the operators  *)
(* of ruint wrap modulo 2^256.                                             *)
(***************************************************************************)
Two255 == SubSeq([i \in 1..32 |-> IF i = 32 THEN 2^7 ELSE 0], 1, 32)

Two256 == SubSeq([i \in 1..33 |-> IF i = 33 THEN 1 ELSE 0], 1, 33)

MaxU256 == SubSeq([i \in 1..32 |-> LimbBase - 1], 1, 32)

Wrap256(a) == Norm(SubSeq(a, 1, Min(Len(a), 256 \div LimbBits)))

WAdd(a, b) == Wrap256(UAdd(a, b))

WSub(a, b) == Wrap256(USub(UAdd(a, Two256), b))

WMul(a, b) == Wrap256(UMul(a, b))

Shl256(a, k) == Wrap256(UShl(a, k))

Not256(a) == USub(MaxU256, a)

u256_to_i256(u) == u

i256_to_u256(i) == i

IsNegative(i) == Len(i) = 32 /\ i[32] >= 2^7

\* Rust's / and % on i32 truncate toward zero.
TruncDiv(a, b) ==
  IF a >= 0 THEN (IF b > 0 THEN a \div b ELSE -(a \div (-b)))
  ELSE (IF b > 0 THEN -((-a) \div b) ELSE (-a) \div (-b))

TruncRem(a, b) == a - b * TruncDiv(a, b)

\* Result<T, UniswapV3MathError>.
Ok(v) == [ok |-> TRUE, v |-> v]

Err(e) == [ok |-> FALSE, err |-> e]

(***************************************************************************)
(* bit_math                                                                *)
(***************************************************************************)
\* One `if x >= 2^k { x >>= k; r += k }` for k = 128, 64, .., 2, then
\* `if x >= 2 { r += 1 }`.
RECURSIVE MsbSteps(_, _, _)
MsbSteps(x, r, k) ==
  IF k = 1 THEN (IF ~ULt(x, <<2>>) THEN r + 1 ELSE r)
  ELSE IF ~ULt(x, UShl(<<1>>, k)) THEN MsbSteps(UShr(x, k), r + k, k \div 2)
  ELSE MsbSteps(x, r, k \div 2)

\* most_significant_bit without its first step, `if x >= 2^128`.
MsbFromSixtyFour(x) ==
  IF x = <<>> THEN Err("ZeroValue") ELSE Ok(MsbSteps(x, 0, 64))

most_significant_bit(x) ==
  IF x = <<>> THEN Err("ZeroValue") ELSE Ok(MsbSteps(x, 0, 128))

\* One `if x & (2^k - 1) > 0 { r -= k } else { x >>= k }` for k = 128, .., 2,
\* then `if x & 1 > 0 { r -= 1 }`.
RECURSIVE LsbSteps(_, _, _)
LsbSteps(x, r, k) ==
  IF k = 1 THEN (IF UBitAnd(x, <<1>>) # <<>> THEN r - 1 ELSE r)
  ELSE IF UBitAnd(x, USub(UShl(<<1>>, k), <<1>>)) # <<>>
  THEN LsbSteps(x, r - k, k \div 2)
  ELSE LsbSteps(UShr(x, k), r, k \div 2)

\* least_significant_bit without the test for zero.
LsbUnchecked(x) == Ok(LsbSteps(x, 255, 128))

least_significant_bit(x) ==
  IF x = <<>> THEN Err("ZeroValue") ELSE Ok(LsbSteps(x, 255, 128))

(***************************************************************************)
(* tick_bitmap                                                             *)
(***************************************************************************)
\* position with the word found by a division that truncates towards zero,
\* not by the arithmetic shift.
PositionTruncating(tick) ==
  << ((TruncDiv(tick, 256) + 2^15) % 2^16) - 2^15,
     (TruncRem(tick, 256) + 256) % 256 >>

\* (tick >> 8) as i16, (tick % 256) as u8
position(tick) ==
  << (((tick \div 256) + 2^15) % 2^16) - 2^15,
     (TruncRem(tick, 256) + 256) % 256 >>

\* u8::overflowing_sub(..).0
U8Sub(a, b) == (a - b + 256) % 256

\* Lines 20-34: `let initialized = !masked == U256::ZERO;` is
\* `(!masked) == U256::ZERO`, the bitwise complement compared with zero.
NextWithinWordLte(bit_pos, masked, tick_spacing, compressed) ==
  IF Not256(masked) = <<>>
  THEN IF masked = <<>> THEN Err("ZeroValue")
       ELSE Ok(<<(compressed
                   - U8Sub(bit_pos, Invoke("most_significant_bit", <<masked>>).v))
                 * tick_spacing, TRUE>>)
  ELSE Ok(<<(compressed - bit_pos) * tick_spacing, FALSE>>)

\* Lines 37-55.
NextWithinWordGt(bit_pos, masked, tick_spacing, compressed) ==
  IF Not256(masked) = <<>>
  THEN IF masked = <<>> THEN Err("ZeroValue")
       ELSE Ok(<<(compressed + 1
                   + U8Sub(Invoke("least_significant_bit", <<masked>>).v, bit_pos))
                 * tick_spacing, TRUE>>)
  ELSE Ok(<<(compressed + 1 + (255 - bit_pos)) * tick_spacing, FALSE>>)

next_initialized_tick_within_one_word(bit_pos, bitmap, tick_spacing, lte, compressed) ==
  IF lte
  THEN NextWithinWordLte(bit_pos,
         UBitAnd(bitmap, WAdd(WSub(Shl256(<<1>>, bit_pos), <<1>>),
                            Shl256(<<1>>, bit_pos))),
         tick_spacing, compressed)
  ELSE NextWithinWordGt(bit_pos,
         UBitAnd(bitmap, Not256(WSub(Shl256(<<1>>, bit_pos), <<1>>))),
         tick_spacing, compressed)

(***************************************************************************)
(* tick_math                                                               *)
(***************************************************************************)
MIN_TICK == -887272

MAX_TICK == 887272

\* 4295128739 = 0x1_0001_3b63
MIN_SQRT_RATIO == FromBytes(<<\h01, \h00, \h02, \h76, \ha3>>)

\* 1461446703485210103287273052203988822378723970342, from the limbs
\* [6743328256752651558, 17280870778742802505, 4294805859, 0]
MAX_SQRT_RATIO ==
  FromBytes(<<\hff, \hfd, \h89, \h63, \hef, \hd1, \hfc, \h6a, \h50, \h64, \h88, \h49,
              \h5d, \h95, \h1d, \h52, \h63, \h98, \h8d, \h26>>)

\* The multiplier tried when bit k of |tick| is tested, k = 1..19
\* (masks 0x2 .. 0x80000).
RatioMagic ==
  << FromBytes(<<\hff, \hf9, \h72, \h72, \h37, \h3d, \h41, \h32, \h59, \ha4, \h69, \h90,
       \h58, \h0e, \h21, \h3a>>),
     FromBytes(<<\hff, \hf2, \he5, \h0f, \h5f, \h65, \h69, \h32, \hef, \h12, \h35, \h7c,
       \hf3, \hc7, \hfd, \hcc>>),
     FromBytes(<<\hff, \he5, \hca, \hca, \h7e, \h10, \he4, \he6, \h1c, \h36, \h24, \hea,
       \ha0, \h94, \h1c, \hd0>>),
     FromBytes(<<\hff, \hcb, \h98, \h43, \hd6, \h0f, \h61, \h59, \hc9, \hdb, \h58, \h83,
       \h5c, \h92, \h66, \h44>>),
     FromBytes(<<\hff, \h97, \h3b, \h41, \hfa, \h98, \hc0, \h81, \h47, \h2e, \h68, \h96,
       \hdf, \hb2, \h54, \hc0>>),
     FromBytes(<<\hff, \h2e, \ha1, \h64, \h66, \hc9, \h6a, \h38, \h43, \hec, \h78, \hb3,
       \h26, \hb5, \h28, \h61>>),
     FromBytes(<<\hfe, \h5d, \hee, \h04, \h6a, \h99, \ha2, \ha8, \h11, \hc4, \h61, \hf1,
       \h96, \h9c, \h30, \h53>>),
     FromBytes(<<\hfc, \hbe, \h86, \hc7, \h90, \h0a, \h88, \hae, \hdc, \hff, \hc8, \h3b,
       \h47, \h9a, \ha3, \ha4>>),
     FromBytes(<<\hf9, \h87, \ha7, \h25, \h3a, \hc4, \h13, \h17, \h6f, \h2b, \h07, \h4c,
       \hf7, \h81, \h5e, \h54>>),
     FromBytes(<<\hf3, \h39, \h2b, \h08, \h22, \hb7, \h00, \h05, \h94, \h0c, \h7a, \h39,
       \h8e, \h4b, \h70, \hf3>>),
     FromBytes(<<\he7, \h15, \h94, \h75, \ha2, \hc2, \h9b, \h74, \h43, \hb2, \h9c, \h7f,
       \ha6, \he8, \h89, \hd9>>),
     FromBytes(<<\hd0, \h97, \hf3, \hbd, \hfd, \h20, \h22, \hb8, \h84, \h5a, \hd8, \hf7,
       \h92, \haa, \h58, \h25>>),
     FromBytes(<<\ha9, \hf7, \h46, \h46, \h2d, \h87, \h0f, \hdf, \h8a, \h65, \hdc, \h1f,
       \h90, \he0, \h61, \he5>>),
     FromBytes(<<\h70, \hd8, \h69, \ha1, \h56, \hd2, \ha1, \hb8, \h90, \hbb, \h3d, \hf6,
       \h2b, \haf, \h32, \hf7>>),
     FromBytes(<<\h31, \hbe, \h13, \h5f, \h97, \hd0, \h8f, \hd9, \h81, \h23, \h15, \h05,
       \h54, \h2f, \hcf, \ha6>>),
     FromBytes(<<\h09, \haa, \h50, \h8b, \h5b, \h7a, \h84, \he1, \hc6, \h77, \hde, \h54,
       \hf3, \he9, \h9b, \hc9>>),
     FromBytes(<<\h5d, \h6a, \hf8, \hde, \hdb, \h81, \h19, \h66, \h99, \hc3, \h29, \h22,
       \h5e, \he6, \h04>>),
     FromBytes(<<\h22, \h16, \he5, \h84, \hf5, \hfa, \h1e, \ha9, \h26, \h04, \h1b, \hed,
       \hfe, \h98>>),
     FromBytes(<<\h04, \h8a, \h17, \h03, \h91, \hf7, \hdc, \h42, \h44, \h4e, \h8f, \ha2>>) >>

\* 0xfffcb933bd6fad37aa2d162d1a594001
RatioOdd ==
  FromBytes(<<\hff, \hfc, \hb9, \h33, \hbd, \h6f, \had, \h37, \haa, \h2d, \h16, \h2d,
              \h1a, \h59, \h40, \h01>>)

\* One `if !(abs_tick & mask) == U256::ZERO { ratio = (ratio * magic) >> 128 }`:
\* `!` binds tighter than `==`, so the test compares the bitwise complement
\* of the masked tick with zero.
RatioStep(abs_tick, k, ratio) ==
  IF Not256(UBitAnd(abs_tick, U(2^k))) = <<>>
  THEN UShr(WMul(ratio, RatioMagic[k]), 128)
  ELSE ratio

\* The nineteen steps, k = 1..19.
RECURSIVE RatioSteps(_, _, _)
RatioSteps(abs_tick, k, ratio) ==
  IF Len(ratio) < 0 THEN <<>>
  ELSE IF k = 20 THEN ratio
  ELSE RatioSteps(abs_tick, k + 1, RatioStep(abs_tick, k, ratio))

\* if tick > 0 { ratio = U256::MAX / ratio }
RatioInvert(tick, ratio) ==
  IF tick > 0 THEN UDiv(MaxU256, ratio) ELSE ratio

\* (ratio >> 32) + if ratio % (1 << 32) == 0 { 0 } else { 1 }
RatioRound(ratio) ==
  WAdd(UShr(ratio, 32),
       IF URem(ratio, Shl256(<<1>>, 32)) = <<>> THEN <<>> ELSE <<1>>)

RatioOfAbs(tick, abs_tick) ==
  IF ULt(U(MAX_TICK), abs_tick) THEN Err("T")
  ELSE Ok(RatioRound(RatioInvert(tick,
            RatioSteps(abs_tick, 1,
                       IF UBitAnd(abs_tick, U(1)) # <<>> THEN RatioOdd
                       ELSE UShl(<<1>>, 128)))))

\* i32::MIN.
MinI32 == -2147483647 - 1

\* Line 17, U256::from(tick.abs()).  i32::MIN has no absolute value: abs()
\* panics where overflow is checked, and returns i32::MIN where it is not,
\* which U256::from then refuses with a panic.
get_sqrt_ratio_at_tick(tick) ==
  IF tick = MinI32 THEN Err("panic: tick.abs()")
  ELSE RatioOfAbs(tick, U(IF tick < 0 THEN -tick ELSE tick))

\* I256 >> k (arithmetic) and I256::low_i32.
Asr256(a, k) ==
  IF IsNegative(a) THEN Not256(UShr(Not256(a), k)) ELSE UShr(a, k)

low_i32(a) ==
  Limb(a, 1) + Limb(a, 2) * 2^8 + Limb(a, 3) * 2^16
  + (IF Limb(a, 4) >= 2^7 THEN Limb(a, 4) - 2^8 ELSE Limb(a, 4)) * 2^24

\* f = if r > 2^(2^k) - 1 { 1 << k } else { 0 }; msb |= f; r >>= f, for
\* k = 7, .., 1, then f = if r > 1 { 1 } else { 0 }; msb |= f.
RECURSIVE TickMsbSteps(_, _, _)
TickMsbSteps(r, msb, k) ==
  IF k = 0 THEN (IF ULt(<<1>>, r) THEN msb + 1 ELSE msb)
  ELSE IF ULt(USub(UShl(<<1>>, 2^k), <<1>>), r)
  THEN TickMsbSteps(UShr(r, 2^k), msb + 2^k, k - 1)
  ELSE TickMsbSteps(r, msb, k - 1)

\* r = (r * r) >> 127; f = r >> 128; log_2 |= f << i; r >>= f, for
\* i = 63, .., 50 (the last step leaves r alone).
RECURSIVE Log2Steps(_, _, _)
Log2Put(r1, log_2, i) ==
  IF Len(r1) < 0 THEN <<>>
  ELSE IF i = 50 THEN UBitOr(log_2, Shl256(UShr(r1, 128), i))
  ELSE Log2Steps(UShr(r1, ToInt(UShr(r1, 128))),
                 UBitOr(log_2, Shl256(UShr(r1, 128), i)), i - 1)

Log2Steps(r, log_2, i) ==
  IF Len(r) + Len(log_2) < 0 THEN <<>>
  ELSE Log2Put(UShr(WMul(r, r), 127), log_2, i)

\* 255738958999603826347141
LogSqrt10001Factor == FromBytes(<<\h36, \h27, \ha3, \h01, \hd7, \h10, \h55, \h77, \h4c, \h85>>)

\* 3402992956809132418596140100660247210
TickLowOffset ==
  FromBytes(<<\h02, \h8f, \h64, \h81, \hab, \h7f, \h04, \h5a, \h5a, \hf0, \h12, \ha1,
              \h9d, \h00, \h3a, \haa>>)

\* 291339464771989622907027621153398088495
TickHighOffset ==
  FromBytes(<<\hdb, \h2d, \hf0, \h9e, \h81, \h95, \h9a, \h81, \h45, \h5e, \h26, \h07,
              \h99, \ha0, \h63, \h2f>>)

\* Lines 169-189: r and log_2 from the most significant bit, then
\* log_sqrt10001 = log_2 * 255738958999603826347141.
LogSqrt10001(ratio, msb) ==
  WMul(Log2Steps(IF msb >= 128 THEN UShr(ratio, msb - 127)
                 ELSE Shl256(ratio, 127 - msb),
                 Shl256(WSub(U(msb), U(128)), 64), 63),
       LogSqrt10001Factor)

\* Lines 201-209.
TickChoose(sqrt_price_x_96, tick_low, tick_high) ==
  IF tick_low = tick_high THEN Ok(tick_low)
  ELSE IF ~Invoke("get_sqrt_ratio_at_tick", <<tick_high>>).ok
  THEN Invoke("get_sqrt_ratio_at_tick", <<tick_high>>)
  ELSE IF ULe(Invoke("get_sqrt_ratio_at_tick", <<tick_high>>).v, sqrt_price_x_96)
  THEN Ok(tick_high)
  ELSE Ok(tick_low)

\* Lines 191-199.
TickBounds(sqrt_price_x_96, log_sqrt10001) ==
  TickChoose(sqrt_price_x_96,
             low_i32(Asr256(WSub(log_sqrt10001, TickLowOffset), 128)),
             low_i32(Asr256(WAdd(log_sqrt10001, TickHighOffset), 128)))

TickOfRatio(sqrt_price_x_96, ratio) ==
  TickBounds(sqrt_price_x_96, LogSqrt10001(ratio, TickMsbSteps(ratio, 0, 7)))

\* get_tick_at_sqrt_ratio with MAX_SQRT_RATIO itself let through.
GetTickUpToMax(sqrt_price_x_96) ==
  IF ~(ULe(MIN_SQRT_RATIO, sqrt_price_x_96) /\ ULe(sqrt_price_x_96, MAX_SQRT_RATIO))
  THEN Err("R")
  ELSE TickOfRatio(sqrt_price_x_96, Shl256(sqrt_price_x_96, 32))

get_tick_at_sqrt_ratio(sqrt_price_x_96) ==
  IF ~(ULe(MIN_SQRT_RATIO, sqrt_price_x_96) /\ ULt(sqrt_price_x_96, MAX_SQRT_RATIO))
  THEN Err("R")
  ELSE TickOfRatio(sqrt_price_x_96, Shl256(sqrt_price_x_96, 32))

calculate_compressed(tick, tick_spacing) ==
  IF tick < 0 /\ TruncRem(tick, tick_spacing) # 0
  THEN TruncDiv(tick, tick_spacing) - 1
  ELSE TruncDiv(tick, tick_spacing)

(***************************************************************************)
(* full_math: mul_div and mul_div_rounding_up.  The module is declared in  *)
(* lib.rs but its file is not part of the sources, so both are taken from  *)
(* the specification (section 4.1): the quotient of the full 512-bit       *)
(* product, failing when the denominator is zero or the result does not    *)
(* fit in 256 bits.                                                        *)
(***************************************************************************)
Checked256(q) ==
  IF ULt(MaxU256, q) THEN Err("MulDivOverflow") ELSE Ok(q)

\* The quotient of a [q, r] pair, rounded up.
RoundedUp(qr) ==
  IF qr.r = <<>> THEN qr.q ELSE UAdd(qr.q, <<1>>)

mul_div(a, b, denominator) ==
  IF denominator = <<>> THEN Err("DivByZero")
  ELSE Checked256(UDiv(UMul(a, b), denominator))

mul_div_rounding_up(a, b, denominator) ==
  IF denominator = <<>> THEN Err("DivByZero")
  ELSE Checked256(RoundedUp(Invoke("UDivMod", <<UMul(a, b), denominator>>)))

(***************************************************************************)
(* unsafe_math.  U256::div_rem panics on a zero divisor; the panic is      *)
(* carried as a failed result so that callers propagate it.                *)
(***************************************************************************)
div_rounding_up(a, b) ==
  IF b = <<>> THEN Err("panic: division by zero")
  ELSE Ok(Wrap256(RoundedUp(Invoke("UDivMod", <<a, b>>))))

(***************************************************************************)
(* sqrt_price_math.  liquidity : u128 is passed as a number already        *)
(* widened (U256::from(liquidity)).                                        *)
(***************************************************************************)
MAX_U160 == SubSeq([i \in 1..20 |-> LimbBase - 1], 1, 20)

Q96 == SubSeq([i \in 1..13 |-> IF i = 13 THEN 1 ELSE 0], 1, 13)

FIXED_POINT_96_RESOLUTION == 96

\* Lines 68-92, with numerator_1 and product computed.
Amount0Next(sqrt_price_x_96, numerator_1, amount, product, add) ==
  IF add
  THEN IF UDiv(product, amount) = sqrt_price_x_96
          /\ ULe(numerator_1, WAdd(numerator_1, product))
       THEN Invoke("mul_div_rounding_up",
                   <<numerator_1, sqrt_price_x_96, WAdd(numerator_1, product)>>)
       ELSE IF sqrt_price_x_96 = <<>> THEN Err("panic: division by zero")
       ELSE Invoke("div_rounding_up",
                   <<numerator_1, WAdd(UDiv(numerator_1, sqrt_price_x_96), amount)>>)
  ELSE IF UDiv(product, amount) = sqrt_price_x_96 /\ ULt(product, numerator_1)
       THEN Invoke("mul_div_rounding_up",
                   <<numerator_1, sqrt_price_x_96, WSub(numerator_1, product)>>)
       ELSE Err("ProductDivAmount")

get_next_sqrt_price_from_amount_0_rounding_up(sqrt_price_x_96, liquidity, amount, add) ==
  IF amount = <<>> THEN Ok(sqrt_price_x_96)
  ELSE Amount0Next(sqrt_price_x_96, Shl256(liquidity, 96), amount,
                   WMul(amount, sqrt_price_x_96), add)

\* Lines 109-115.
Amount1Add(sqrt_price_x_96, quotient) ==
  IF ~quotient.ok THEN quotient
  ELSE IF ULt(MAX_U160, WAdd(sqrt_price_x_96, quotient.v))
  THEN Err("SafeCastToU160Overflow")
  ELSE Ok(WAdd(sqrt_price_x_96, quotient.v))

\* Lines 123-128.
Amount1Sub(sqrt_price_x_96, quotient) ==
  IF ~quotient.ok THEN quotient
  ELSE IF ULe(sqrt_price_x_96, quotient.v) THEN Err("SqrtPriceIsLteQuotient")
  ELSE Ok(WSub(sqrt_price_x_96, quotient.v))

get_next_sqrt_price_from_amount_1_rounding_down(sqrt_price_x_96, liquidity, amount, add) ==
  IF add
  THEN Amount1Add(sqrt_price_x_96,
         IF ULe(amount, MAX_U160)
         THEN IF liquidity = <<>> THEN Err("panic: division by zero")
              ELSE Ok(UDiv(Shl256(amount, FIXED_POINT_96_RESOLUTION), liquidity))
         ELSE Invoke("mul_div", <<amount, Q96, liquidity>>))
  ELSE Amount1Sub(sqrt_price_x_96,
         IF ULe(amount, MAX_U160)
         THEN Invoke("div_rounding_up",
                     <<Shl256(amount, FIXED_POINT_96_RESOLUTION), liquidity>>)
         ELSE Invoke("mul_div_rounding_up", <<amount, Q96, liquidity>>))

\* get_next_sqrt_price_from_input with the liquidity tested before the price.
NextFromInputLiquidityFirst(sqrt_price, liquidity, amount_in, zero_for_one) ==
  IF liquidity = <<>> THEN Err("LiquidityIsZero")
  ELSE IF sqrt_price = <<>> THEN Err("SqrtPriceIsZero")
  ELSE IF zero_for_one
  THEN Invoke("get_next_sqrt_price_from_amount_0_rounding_up",
              <<sqrt_price, liquidity, amount_in, TRUE>>)
  ELSE Invoke("get_next_sqrt_price_from_amount_1_rounding_down",
              <<sqrt_price, liquidity, amount_in, TRUE>>)

get_next_sqrt_price_from_input(sqrt_price, liquidity, amount_in, zero_for_one) ==
  IF sqrt_price = <<>> THEN Err("SqrtPriceIsZero")
  ELSE IF liquidity = <<>> THEN Err("LiquidityIsZero")
  ELSE IF zero_for_one
  THEN Invoke("get_next_sqrt_price_from_amount_0_rounding_up",
              <<sqrt_price, liquidity, amount_in, TRUE>>)
  ELSE Invoke("get_next_sqrt_price_from_amount_1_rounding_down",
              <<sqrt_price, liquidity, amount_in, TRUE>>)

get_next_sqrt_price_from_output(sqrt_price, liquidity, amount_out, zero_for_one) ==
  IF sqrt_price = <<>> THEN Err("SqrtPriceIsZero")
  ELSE IF liquidity = <<>> THEN Err("LiquidityIsZero")
  ELSE IF zero_for_one
  THEN Invoke("get_next_sqrt_price_from_amount_1_rounding_down",
              <<sqrt_price, liquidity, amount_out, FALSE>>)
  ELSE Invoke("get_next_sqrt_price_from_amount_0_rounding_up",
              <<sqrt_price, liquidity, amount_out, FALSE>>)

\* Lines 152 and 154: the partial quotient divided by the lower price.
Amount0Quotient(a, partial, round_up) ==
  IF ~partial.ok THEN partial
  ELSE IF round_up THEN Invoke("div_rounding_up", <<partial.v, a>>)
  ELSE Ok(UDiv(partial.v, a))

\* Lines 143-155, for a <= b.
Amount0Delta(a, b, liquidity, round_up) ==
  IF a = <<>> THEN Err("SqrtPriceIsZero")
  ELSE Amount0Quotient(a,
         IF round_up
         THEN Invoke("mul_div_rounding_up", <<Shl256(liquidity, 96), WSub(b, a), b>>)
         ELSE Invoke("mul_div", <<Shl256(liquidity, 96), WSub(b, a), b>>),
         round_up)

_get_amount_0_delta(sqrt_ratio_a_x_96, sqrt_ratio_b_x_96, liquidity, round_up) ==
  IF ULt(sqrt_ratio_b_x_96, sqrt_ratio_a_x_96)
  THEN Amount0Delta(sqrt_ratio_b_x_96, sqrt_ratio_a_x_96, liquidity, round_up)
  ELSE Amount0Delta(sqrt_ratio_a_x_96, sqrt_ratio_b_x_96, liquidity, round_up)

\* Lines 169-181, for a <= b.
Amount1Delta(a, b, liquidity, round_up) ==
  IF round_up THEN Invoke("mul_div_rounding_up", <<liquidity, WSub(b, a), Q96>>)
  ELSE Invoke("mul_div", <<liquidity, WSub(b, a), Q96>>)

_get_amount_1_delta(sqrt_ratio_a_x_96, sqrt_ratio_b_x_96, liquidity, round_up) ==
  IF ULt(sqrt_ratio_b_x_96, sqrt_ratio_a_x_96)
  THEN Amount1Delta(sqrt_ratio_b_x_96, sqrt_ratio_a_x_96, liquidity, round_up)
  ELSE Amount1Delta(sqrt_ratio_a_x_96, sqrt_ratio_b_x_96, liquidity, round_up)

(***************************************************************************)
(* swap_math.  I256 negation overflows on I256::MIN and `1e6 as u32 -      *)
(* fee_pips` underflows for fee_pips > 10^6: both panic in a build with    *)
(* overflow checks (debug) and wrap without them (release), which the      *)
(* parameter checks selects.                                               *)
(***************************************************************************)
Neg256(a, checks) ==
  IF a = Two255 /\ checks THEN Err("panic: arithmetic overflow")
  ELSE Ok(WSub(<<>>, a))

\* 1e6 as u32 - fee_pips
FeeComplement(fee_pips, checks) ==
  IF fee_pips <= 10^6 THEN Ok(U(10^6 - fee_pips))
  ELSE IF checks THEN Err("panic: arithmetic overflow")
  ELSE Ok(USub(UAdd(UShl(<<1>>, 32), U(10^6)), U(fee_pips)))

\* Lines 33-37 without the fee taken off: the whole amount remaining.
LessFeeNothing(amount_remaining, comp) ==
  IF comp.ok THEN Ok(amount_remaining)
  ELSE comp

\* Lines 33-37.
LessFee(amount_remaining, comp) ==
  IF comp.ok THEN Invoke("mul_div", <<amount_remaining, comp.v, U(10^6)>>)
  ELSE comp

SwapNextPack(next, amount_in, amount_out) ==
  IF ~next.ok THEN next
  ELSE Ok([next |-> next.v, amount_in |-> amount_in, amount_out |-> amount_out])

\* Lines 33-54 without lines 45-46: the whole input spent, target or not.
SwapNextInUncapped(current, target, liquidity, less_fee, amount_in, zero_for_one) ==
  IF ~less_fee.ok THEN less_fee
  ELSE IF ~amount_in.ok THEN amount_in
  ELSE SwapNextPack(Invoke("get_next_sqrt_price_from_input",
                           <<current, liquidity, less_fee.v, zero_for_one>>),
                    amount_in.v, <<>>)

\* Lines 33-54, with the two results computed in that order.
SwapNextIn(current, target, liquidity, less_fee, amount_in, zero_for_one) ==
  IF ~less_fee.ok THEN less_fee
  ELSE IF ~amount_in.ok THEN amount_in
  ELSE SwapNextPack(IF ULe(amount_in.v, less_fee.v) THEN Ok(target)
                    ELSE Invoke("get_next_sqrt_price_from_input",
                                <<current, liquidity, less_fee.v, zero_for_one>>),
                    amount_in.v, <<>>)

\* Lines 56-73.
SwapNextOut(current, target, liquidity, amount_out, neg, zero_for_one) ==
  IF ~amount_out.ok THEN amount_out
  ELSE IF ~neg.ok THEN neg
  ELSE SwapNextPack(IF ULe(amount_out.v, neg.v) THEN Ok(target)
                    ELSE Invoke("get_next_sqrt_price_from_output",
                                <<current, liquidity, neg.v, zero_for_one>>),
                    <<>>, amount_out.v)

\* Lines 25-74: the next price, with the side computed on the way.
SwapStepNext(current, target, liquidity, amount_remaining, fee_pips, checks) ==
  IF ~IsNegative(amount_remaining)
  THEN SwapNextIn(current, target, liquidity,
         LessFee(amount_remaining, FeeComplement(fee_pips, checks)),
         IF ULe(target, current)
         THEN Invoke("_get_amount_0_delta", <<target, current, liquidity, TRUE>>)
         ELSE Invoke("_get_amount_1_delta", <<current, target, liquidity, TRUE>>),
         ULe(target, current))
  ELSE SwapNextOut(current, target, liquidity,
         IF ULe(target, current)
         THEN Invoke("_get_amount_1_delta", <<target, current, liquidity, FALSE>>)
         ELSE Invoke("_get_amount_0_delta", <<current, target, liquidity, FALSE>>),
         Neg256(amount_remaining, checks),
         ULe(target, current))

SwapAmountsPack(next, amount_in, amount_out) ==
  IF ~amount_in.ok THEN amount_in
  ELSE IF ~amount_out.ok THEN amount_out
  ELSE Ok([next |-> next, amount_in |-> amount_in.v, amount_out |-> amount_out.v])

\* Lines 76-106: the amounts recomputed from the price actually reached.
SwapStepAmounts(current, target, liquidity, exact_in, s) ==
  SwapAmountsPack(s.next,
    IF target = s.next /\ exact_in THEN Ok(s.amount_in)
    ELSE IF ULe(target, current)
    THEN Invoke("_get_amount_0_delta", <<s.next, current, liquidity, TRUE>>)
    ELSE Invoke("_get_amount_1_delta", <<current, s.next, liquidity, TRUE>>),
    IF target = s.next /\ ~exact_in THEN Ok(s.amount_out)
    ELSE IF ULe(target, current)
    THEN Invoke("_get_amount_1_delta", <<s.next, current, liquidity, FALSE>>)
    ELSE Invoke("_get_amount_0_delta", <<current, s.next, liquidity, FALSE>>))

\* Lines 118-122.
FeeAmount(amount_in, fee_pips, comp) ==
  IF comp.ok THEN Invoke("mul_div_rounding_up", <<amount_in, U(fee_pips), comp.v>>)
  ELSE comp

SwapStepPack(next, amount_in, amount_out, fee_amount) ==
  IF ~fee_amount.ok THEN fee_amount
  ELSE Ok(<<next, amount_in, amount_out, fee_amount.v>>)

\* Lines 118-122 alone: the fee taken in proportion to amount_in in every case.
SwapStepFeeProportional(target, amount_remaining, fee_pips, checks, s, neg) ==
  IF ~s.ok THEN s
  ELSE IF ~neg.ok THEN neg
  ELSE SwapStepPack(s.v.next, s.v.amount_in,
         IF IsNegative(amount_remaining) /\ ULt(neg.v, s.v.amount_out)
         THEN neg.v ELSE s.v.amount_out,
         FeeAmount(s.v.amount_in, fee_pips, FeeComplement(fee_pips, checks)))

\* Lines 114-125 without lines 110-112: amount_out as computed, never clamped.
SwapStepFeeUnclamped(target, amount_remaining, fee_pips, checks, s, neg) ==
  IF ~s.ok THEN s
  ELSE IF ~neg.ok THEN neg
  ELSE SwapStepPack(s.v.next, s.v.amount_in, s.v.amount_out,
         IF ~IsNegative(amount_remaining) /\ s.v.next # target
         THEN Ok(WSub(amount_remaining, s.v.amount_in))
         ELSE FeeAmount(s.v.amount_in, fee_pips,
                        FeeComplement(fee_pips, checks)))

\* Lines 108-125.
SwapStepFee(target, amount_remaining, fee_pips, checks, s, neg) ==
  IF ~s.ok THEN s
  ELSE IF ~neg.ok THEN neg
  ELSE SwapStepPack(s.v.next, s.v.amount_in,
         IF IsNegative(amount_remaining) /\ ULt(neg.v, s.v.amount_out)
         THEN neg.v ELSE s.v.amount_out,
         IF ~IsNegative(amount_remaining) /\ s.v.next # target
         THEN Ok(WSub(amount_remaining, s.v.amount_in))
         ELSE FeeAmount(s.v.amount_in, fee_pips,
                        FeeComplement(fee_pips, checks)))

SwapStepAmountsOf(current, target, liquidity, amount_remaining, s) ==
  IF ~s.ok THEN s
  ELSE Invoke("SwapStepAmounts",
              <<current, target, liquidity, ~IsNegative(amount_remaining), s.v>>)

\* Returns Ok(<<sqrt_ratio_next_x_96, amount_in, amount_out, fee_amount>>).
compute_swap_step(sqrt_ratio_current_x_96, sqrt_ratio_target_x_96, liquidity, amount_remaining, fee_pips, checks) ==
  SwapStepFee(sqrt_ratio_target_x_96, amount_remaining, fee_pips, checks,
    SwapStepAmountsOf(sqrt_ratio_current_x_96, sqrt_ratio_target_x_96, liquidity,
      amount_remaining,
      Invoke("SwapStepNext", <<sqrt_ratio_current_x_96, sqrt_ratio_target_x_96,
                               liquidity, amount_remaining, fee_pips,
                               checks>>)),
    Neg256(amount_remaining, checks))

(***************************************************************************)
(* The provider (TicksProvider, lib.rs 27-30): a sparse tick bitmap and a  *)
(* sparse table of liquidity deltas.  Either lookup may also fail, with    *)
(* any of the provider's errors, each time it is asked.                    *)
(***************************************************************************)
TickBitmap == (-2 :> MaxU256) @@ (0 :> MaxU256)

\* i128 values as sign and magnitude.
I128(neg, mag) == [neg |-> neg, mag |-> mag]

\* 4*10^17 at tick 255, -3*10^17 at tick 1, 2*10^18 + 5 at tick -257 and
\* 10^17 at tick 60.
LiquidityNets ==
  (255 :> I128(FALSE, UMul(U(4 * 10^8), U(10^9))))
  @@ (1 :> I128(TRUE, UMul(U(3 * 10^8), U(10^9))))
  @@ (-257 :> I128(FALSE, UAdd(UMul(U(2 * 10^9), U(10^9)), <<5>>)))
  @@ (60 :> I128(FALSE, UMul(U(10^8), U(10^9))))

ProviderErrors == {"provider: timeout", "provider: not found"}

\* The entry of a sparse table, or the default where it has none.
Entry(table, key, default) ==
  IF key \in DOMAIN table THEN table[key] ELSE default

get_word_at_position(position_) == Entry(TickBitmap, position_, <<>>)

get_liquidity_net_at_tick(tick) == Entry(LiquidityNets, tick, I128(FALSE, <<>>))

\* tick_bitmap.rs 63-123: the search that asks the provider for its word
\* itself; data_provider is a table of the provider's answers, whose default
\* is the empty word.  Upwards the word and the bit are those of
\* compressed + 1 (line 98).
next_initialized_tick_within_one_word_from_provider(tick, tick_spacing, lte, data_provider) ==
  LET compressed == calculate_compressed(tick, tick_spacing)
      pos == IF lte THEN position(compressed) ELSE position(compressed + 1)
      answer == Entry(data_provider, pos[1], Ok(<<>>))
  IN  IF ~answer.ok THEN answer
      ELSE IF lte
      THEN NextWithinWordLte(pos[2],
             UBitAnd(answer.v, WAdd(WSub(Shl256(<<1>>, pos[2]), <<1>>),
                                  Shl256(<<1>>, pos[2]))),
             tick_spacing, compressed)
      ELSE NextWithinWordGt(pos[2],
             UBitAnd(answer.v, Not256(WSub(Shl256(<<1>>, pos[2]), <<1>>))),
             tick_spacing, compressed)

\* What one lookup may answer.
ProviderAnswers(v) == {Ok(v)} \cup {Err(e) : e \in ProviderErrors}

(***************************************************************************)
(* Pools: the fields of Math (lib.rs 33-40) of pools in a consistent       *)
(* state, the price lying in the tick's price interval.                    *)
(***************************************************************************)
Math(fee, liquidity, sqrt_price_x96, tick, tick_spacing) ==
  [fee |-> fee, liquidity |-> liquidity, sqrt_price_x96 |-> sqrt_price_x96,
   tick |-> tick, tick_spacing |-> tick_spacing]

Pools ==
  { Math(3000, UMul(U(10^9), U(10^9)), UShl(<<1>>, 96), 0, 60),
    \* 80244737654238127488718985954, in tick 255
    Math(100, UMul(U(10^9), U(10^9)),
         FromBytes(<<\h01, \h03, \h48, \he4, \h28, \hc3, \h41, \h6a, \hd1, \hf8, \h71, \hda,
                   \he2>>),
         255, 1) }

\* The arguments of Math::update the model applies: <<liquidity, sqrt_price_x96, tick>>.
Updates ==
  { \* 78216644124655454786675148355, in tick -257
    <<UMul(U(2 * 10^9), U(10^9)),
      FromBytes(<<\hfc, \hbb, \h4a, \ha6, \h39, \h4e, \h44, \h7f, \h85, \h0a, \h06, \h43>>),
      -257>> }

(***************************************************************************)
(* Math::simulate_swap (lib.rs 52-185) as a state machine.  A call runs    *)
(* from Call (lines 57-79) through one Iterate per pass of the while loop  *)
(* (lines 81-182) to Return (line 184); an error or a panic ends it        *)
(* wherever it arises.  Math::update (lines 46-50) runs between calls.     *)
(***************************************************************************)
vars == <<pool, overflow_checks, pc, args, current_state, word, step, swap_call,
          iter, calls, result, prev, probe>>

\* The loop counter is kept modulo IterMod.
IterMod == 2

\* Amounts of 10^(9k) are tried for k up to MaxAmountExp.
MaxAmountExp == 2

\* The amounts a call is made with: zero, exact-input amounts, and amounts
\* from 2^255 on, which u256_to_i256 reads as negative (2^255, 2^256 - 10^16
\* and 2^256 - 2 * 10^14).
Amounts ==
  {<<>>, Two255, WSub(<<>>, UMul(U(10^7), U(10^9))),
   WSub(<<>>, UMul(U(2 * 10^5), U(10^9)))}
  \cup {UPow(U(10^9), k) : k \in 1..MaxAmountExp}

NoArgs == [zero_for_one |-> FALSE, amount_in |-> <<>>]

NoState ==
  [amount_specified_remaining |-> <<>>, amount_calculated |-> <<>>,
   sqrt_price_x96 |-> <<>>, tick |-> 0, liquidity |-> <<>>, word_pos |-> 0]

NoStep ==
  [sqrt_price_start_x96 |-> <<>>, tick_next |-> 0, initialized |-> FALSE,
   sqrt_price_next_x96 |-> <<>>, amount_in |-> <<>>, amount_out |-> <<>>,
   fee_amount |-> <<>>]

NoSwapCall ==
  [called |-> FALSE, current |-> <<>>, target |-> <<>>, liquidity |-> <<>>,
   amount_remaining |-> <<>>, fee_pips |-> 0]

NoResult == Err("none")

NoPrev == [set |-> FALSE, calls |-> <<>>, result |-> NoResult]

NoProbe == [fn |-> "none", input |-> <<>>, output |-> NoResult, before |-> <<>>]

Init ==
  /\ pool \in Pools
  /\ overflow_checks \in BOOLEAN
  /\ pc = "idle"
  /\ args = NoArgs
  /\ current_state = NoState
  /\ word = <<>>
  /\ step = NoStep
  /\ swap_call = NoSwapCall
  /\ iter = 0
  /\ calls = <<>>
  /\ result = NoResult
  /\ prev = NoPrev
  /\ probe = NoProbe

\* Lines 63-67.
sqrt_price_limit_x96(zero_for_one) ==
  IF zero_for_one THEN WAdd(MIN_SQRT_RATIO, <<1>>) ELSE WSub(MAX_SQRT_RATIO, <<1>>)

\* Lines 114-124 with the target taken from the end of the price range, not
\* from the limit.
SwapTargetAtRangeEnd(zero_for_one, sqrt_price_next_x96, limit) ==
  IF zero_for_one THEN MIN_SQRT_RATIO ELSE MAX_SQRT_RATIO

\* Lines 114-124.
swap_target_sqrt_ratio(zero_for_one, sqrt_price_next_x96, limit) ==
  IF zero_for_one
  THEN IF ULt(sqrt_price_next_x96, limit) THEN limit ELSE sqrt_price_next_x96
  ELSE IF ULt(limit, sqrt_price_next_x96) THEN limit ELSE sqrt_price_next_x96

\* Lines 81-82: the condition of the while loop.
LoopCondition ==
  /\ current_state.amount_specified_remaining # <<>>
  /\ current_state.sqrt_price_x96 # sqrt_price_limit_x96(args.zero_for_one)

\* I256 - I256 with the overflow test of the build.
CheckedDiff(a, b, r, checks) ==
  IF checks /\ IsNegative(a) # IsNegative(b) /\ IsNegative(r) # IsNegative(a)
  THEN Err("panic: arithmetic overflow")
  ELSE Ok(r)

\* Line 148: current_state.amount_calculated -= ..
SubI256(a, b, checks) == CheckedDiff(a, b, WSub(a, b), checks)

\* -liquidity_net on i128.
NegI128(n, checks) ==
  IF n.neg /\ n.mag = UShl(<<1>>, 127)
  THEN IF checks THEN Err("panic: arithmetic overflow") ELSE Ok(n)
  ELSE Ok(I128(~n.neg /\ n.mag # <<>>, n.mag))

\* u128 results: out of range panics or wraps with the build.
CheckedU128(v, checks) ==
  IF ULt(v, UShl(<<1>>, 128)) THEN Ok(v)
  ELSE IF checks THEN Err("panic: arithmetic overflow")
  ELSE Ok(USub(v, UShl(<<1>>, 128)))

\* Line 164: liquidity - (-liquidity_net as u128), with -liquidity_net computed.
CrossSub(liquidity, negated, checks) ==
  IF ~negated.ok THEN negated
  ELSE IF ULe(negated.v.mag, liquidity) THEN Ok(USub(liquidity, negated.v.mag))
  ELSE IF checks THEN Err("panic: arithmetic overflow")
  ELSE Ok(USub(UAdd(liquidity, UShl(<<1>>, 128)), negated.v.mag))

\* Lines 163-167.
CrossApply(liquidity, net, checks) ==
  IF ~net.ok THEN net
  ELSE IF net.v.neg THEN CrossSub(liquidity, NegI128(net.v, checks), checks)
  ELSE CheckedU128(UAdd(liquidity, net.v.mag), checks)

\* Lines 159-167: the liquidity past an initialized tick.
CrossLiquidity(liquidity, liquidity_net, zero_for_one, checks) ==
  CrossApply(liquidity,
             IF zero_for_one THEN NegI128(liquidity_net, checks)
             ELSE Ok(liquidity_net),
             checks)

Lookup(fn, arg, answer) == [fn |-> fn, arg |-> arg, answer |-> answer]

(***************************************************************************)
(* One pass of the while loop (lib.rs 84-181) as a function of the state   *)
(* at the loop head.  It yields the set of its outcomes, one for each way  *)
(* the provider may answer: the loop goes on from `current_state`, `word`  *)
(* and `step` (pc = "loop"), or the call returns `result` (pc = "done").   *)
(* `self` is the pool, `log` the lookups made so far, `sc` the arguments   *)
(* of the last call of compute_swap_step.  A value the code computes once  *)
(* and then uses is bound once, as the only element of a set.              *)
(***************************************************************************)
Finished(r, log, sc) ==
  [pc |-> "done", result |-> r, current_state |-> NoState, word |-> <<>>,
   step |-> NoStep, calls |-> log, swap_call |-> sc]

Continued(cs, w, st, log, sc) ==
  [pc |-> "loop", result |-> NoResult, current_state |-> cs, word |-> w,
   step |-> st, calls |-> log, swap_call |-> sc]

\* Line 180, with the tick computed.
PassRetick(cs, w, st, log, sc, tick) ==
  IF ~tick.ok THEN Finished(tick, log, sc)
  ELSE Continued([cs EXCEPT !.tick = tick.v], w, st, log, sc)

\* Lines 163-174, with the liquidity computed.
PassLiquidity(zero_for_one, cs, w, st, log, sc, liquidity) ==
  IF ~liquidity.ok THEN Finished(liquidity, log, sc)
  ELSE Continued([cs EXCEPT !.liquidity = liquidity.v,
                            !.tick = IF zero_for_one THEN st.tick_next - 1
                                     ELSE st.tick_next],
                 w, st, log, sc)

\* Lines 154-174 with a failed get_liquidity_net_at_tick swallowed: the
\* liquidity stays as it is.
PassNetSwallowing(zero_for_one, cs, w, st, log, sc, checks, answer) ==
  IF ~answer.ok THEN { Continued(cs, w, st, log, sc) }
  ELSE { PassLiquidity(zero_for_one, cs, w, st, log, sc, liquidity) :
         liquidity \in {CrossLiquidity(cs.liquidity, answer.v, zero_for_one, checks)} }

\* Lines 154-174, with the provider's answer.
PassNet(zero_for_one, cs, w, st, log, sc, checks, answer) ==
  IF ~answer.ok THEN { Finished(answer, log, sc) }
  ELSE { PassLiquidity(zero_for_one, cs, w, st, log, sc, liquidity) :
         liquidity \in {CrossLiquidity(cs.liquidity, answer.v, zero_for_one, checks)} }

\* Lines 152-181.
PassCross(zero_for_one, cs, w, st, log, sc, checks) ==
  IF cs.sqrt_price_x96 = st.sqrt_price_next_x96
  THEN IF st.initialized
       THEN UNION { PassNet(zero_for_one, cs, w, st,
                            Append(log, Lookup("get_liquidity_net_at_tick",
                                               st.tick_next, answer)),
                            sc, checks, answer) :
                    answer \in ProviderAnswers(get_liquidity_net_at_tick(st.tick_next)) }
       ELSE { Continued(cs, w, st, log, sc) }
  ELSE IF cs.sqrt_price_x96 # st.sqrt_price_start_x96
  THEN { PassRetick(cs, w, st, log, sc, tick) :
         tick \in {Invoke("get_tick_at_sqrt_ratio", <<cs.sqrt_price_x96>>)} }
  ELSE { Continued(cs, w, st, log, sc) }

\* Line 148, with the difference computed.
PassCalculated(zero_for_one, cs, w, st, log, sc, checks, calculated) ==
  IF ~calculated.ok THEN { Finished(calculated, log, sc) }
  ELSE UNION { PassCross(zero_for_one, cs2, w, st, log, sc, checks) :
               cs2 \in {[cs EXCEPT !.amount_calculated = calculated.v]} }

\* Lines 127-148, with the result of compute_swap_step.
PassAmounts(zero_for_one, cs, w, st, log, sc, checks, swap) ==
  IF ~swap.ok THEN { Finished(swap, log, sc) }
  ELSE UNION {
         PassCalculated(zero_for_one, cs2, w, st2, log, sc, checks, calculated) :
           cs2 \in {[cs EXCEPT !.sqrt_price_x96 = swap.v[1],
                               !.amount_specified_remaining =
                                  WSub(@, u256_to_i256(WAdd(swap.v[2], swap.v[4])))]},
           st2 \in {[st EXCEPT !.amount_in = swap.v[2], !.amount_out = swap.v[3],
                               !.fee_amount = swap.v[4]]},
           calculated \in {SubI256(cs.amount_calculated, u256_to_i256(swap.v[3]),
                                   checks)} }

\* Lines 127-138.
PassSwap(zero_for_one, cs, w, st, log, sc, checks) ==
  UNION { PassAmounts(zero_for_one, cs, w, st, log, sc, checks, swap) :
          swap \in {Invoke("compute_swap_step",
                           <<sc.current, sc.target, sc.liquidity,
                             sc.amount_remaining, sc.fee_pips, checks>>)} }

\* Lines 111-124, with the price of the next tick.
PassTarget(self, zero_for_one, cs, w, log, sc, checks, tick_next, initialized, sqrt_price_next_x96) ==
  IF ~sqrt_price_next_x96.ok THEN { Finished(sqrt_price_next_x96, log, sc) }
  ELSE UNION {
         PassSwap(zero_for_one, cs, w, st, log, sc2, checks) :
           st \in {[NoStep EXCEPT !.sqrt_price_start_x96 = cs.sqrt_price_x96,
                                  !.tick_next = tick_next,
                                  !.initialized = initialized,
                                  !.sqrt_price_next_x96 = sqrt_price_next_x96.v]},
           sc2 \in {[called |-> TRUE,
                     current |-> cs.sqrt_price_x96,
                     target |-> swap_target_sqrt_ratio(zero_for_one,
                                  sqrt_price_next_x96.v,
                                  sqrt_price_limit_x96(zero_for_one)),
                     liquidity |-> cs.liquidity,
                     amount_remaining |-> cs.amount_specified_remaining,
                     fee_pips |-> self.fee]} }

\* Lines 108-111: step.tick_next.clamp(MIN_TICK, MAX_TICK) and its price.
PassClamp(self, zero_for_one, cs, w, log, sc, checks, tick_next, initialized) ==
  UNION { PassTarget(self, zero_for_one, cs, w, log, sc, checks,
                     clamped, initialized, sqrt_price_next_x96) :
          clamped \in {Max(MIN_TICK, Min(MAX_TICK, tick_next))},
          sqrt_price_next_x96 \in
            {Invoke("get_sqrt_ratio_at_tick",
                    <<Max(MIN_TICK, Min(MAX_TICK, tick_next))>>)} }

\* Lines 98-104, with the result of the search.
PassNext(self, zero_for_one, cs, w, log, sc, checks, next) ==
  IF ~next.ok THEN { Finished(next, log, sc) }
  ELSE PassClamp(self, zero_for_one, cs, w, log, sc, checks, next.v[1], next.v[2])

\* Lines 98-104.
PassTick(self, zero_for_one, cs, w, log, sc, checks, compressed, pos) ==
  UNION { PassNext(self, zero_for_one, cs, w, log, sc, checks, next) :
          next \in {Invoke("next_initialized_tick_within_one_word",
                           <<pos[2], w, self.tick_spacing, zero_for_one,
                             compressed>>)} }

\* Lines 94-95, with the provider's answer.
PassWord(self, zero_for_one, cs, log, sc, checks, compressed, pos, answer) ==
  IF ~answer.ok THEN { Finished(answer, log, sc) }
  ELSE UNION { PassTick(self, zero_for_one, cs2, answer.v, log, sc, checks,
                        compressed, pos) :
               cs2 \in {[cs EXCEPT !.word_pos = pos[1]]} }

\* Lines 93-96: the word is fetched again at the position held so far.
PassFetch(self, zero_for_one, cs, w, log, sc, checks, compressed, pos) ==
  IF pos[1] # cs.word_pos
  THEN UNION { PassWord(self, zero_for_one, cs,
                        Append(log, Lookup("get_word_at_position",
                                           cs.word_pos, answer)),
                        sc, checks, compressed, pos, answer) :
               answer \in ProviderAnswers(get_word_at_position(cs.word_pos)) }
  ELSE PassTick(self, zero_for_one, cs, w, log, sc, checks, compressed, pos)

\* Lines 84-181.
LoopPass(self, zero_for_one, cs, w, log, sc, checks) ==
  UNION { PassFetch(self, zero_for_one, cs, w, log, sc, checks, compressed,
                    position(compressed)) :
          compressed \in {calculate_compressed(cs.tick, self.tick_spacing)} }

\* The functions Invoke reaches.
Invoke(f, x) ==
  CASE f = "UDivMod" -> UDivMod(x[1], x[2])
    [] f = "most_significant_bit" -> most_significant_bit(x[1])
    [] f = "least_significant_bit" -> least_significant_bit(x[1])
    [] f = "next_initialized_tick_within_one_word" ->
         next_initialized_tick_within_one_word(x[1], x[2], x[3], x[4], x[5])
    [] f = "get_sqrt_ratio_at_tick" -> get_sqrt_ratio_at_tick(x[1])
    [] f = "get_tick_at_sqrt_ratio" -> get_tick_at_sqrt_ratio(x[1])
    [] f = "mul_div" -> mul_div(x[1], x[2], x[3])
    [] f = "mul_div_rounding_up" -> mul_div_rounding_up(x[1], x[2], x[3])
    [] f = "div_rounding_up" -> div_rounding_up(x[1], x[2])
    [] f = "get_next_sqrt_price_from_amount_0_rounding_up" ->
         get_next_sqrt_price_from_amount_0_rounding_up(x[1], x[2], x[3], x[4])
    [] f = "get_next_sqrt_price_from_amount_1_rounding_down" ->
         get_next_sqrt_price_from_amount_1_rounding_down(x[1], x[2], x[3], x[4])
    [] f = "get_next_sqrt_price_from_input" ->
         get_next_sqrt_price_from_input(x[1], x[2], x[3], x[4])
    [] f = "get_next_sqrt_price_from_output" ->
         get_next_sqrt_price_from_output(x[1], x[2], x[3], x[4])
    [] f = "_get_amount_0_delta" -> _get_amount_0_delta(x[1], x[2], x[3], x[4])
    [] f = "_get_amount_1_delta" -> _get_amount_1_delta(x[1], x[2], x[3], x[4])
    [] f = "SwapStepNext" -> SwapStepNext(x[1], x[2], x[3], x[4], x[5], x[6])
    [] f = "SwapStepAmounts" -> SwapStepAmounts(x[1], x[2], x[3], x[4], x[5])
    [] f = "compute_swap_step" ->
         compute_swap_step(x[1], x[2], x[3], x[4], x[5], x[6])
    [] f = "position" -> Ok(position(x[1]))
    [] f = "next_initialized_tick_within_one_word_from_provider" ->
         next_initialized_tick_within_one_word_from_provider(x[1], x[2], x[3], x[4])
    [] f = "LoopPass" -> LoopPass(x[1], x[2], x[3], x[4], x[5], x[6], x[7])

\* Math::update (lines 46-50), between calls.
Update(liquidity, sqrt_price_x96, tick) ==
  /\ pc \in {"idle", "done"}
  /\ pool' = [pool EXCEPT !.liquidity = liquidity,
                          !.sqrt_price_x96 = sqrt_price_x96,
                          !.tick = tick]
  /\ pc' = "idle"
  /\ args' = NoArgs
  /\ current_state' = NoState
  /\ word' = <<>>
  /\ step' = NoStep
  /\ swap_call' = NoSwapCall
  /\ iter' = 0
  /\ calls' = <<>>
  /\ result' = NoResult
  /\ prev' = NoPrev
  /\ UNCHANGED <<overflow_checks, probe>>

\* Lines 70-79, with the provider's answer.
Entered(self, amount_in, word_pos, answer) ==
  IF ~answer.ok
  THEN Finished(answer, <<Lookup("get_word_at_position", word_pos, answer)>>,
                NoSwapCall)
  ELSE Continued([sqrt_price_x96 |-> self.sqrt_price_x96,
                  amount_calculated |-> <<>>,
                  amount_specified_remaining |-> u256_to_i256(amount_in),
                  tick |-> self.tick,
                  liquidity |-> self.liquidity,
                  word_pos |-> word_pos],
                 answer.v, NoStep,
                 <<Lookup("get_word_at_position", word_pos, answer)>>,
                 NoSwapCall)

\* Lines 70-79 without the early return of line 57: the word is fetched first.
EnterFetchingFirst(self, amount_in, word_pos) ==
  { Entered(self, amount_in, word_pos, answer) :
    answer \in ProviderAnswers(get_word_at_position(word_pos)) }

\* Lines 57-79: the outcomes of simulate_swap up to the loop.
Enter(self, amount_in, word_pos) ==
  IF amount_in = <<>> THEN { Finished(Ok(<<>>), <<>>, NoSwapCall) }
  ELSE { Entered(self, amount_in, word_pos, answer) :
         answer \in ProviderAnswers(get_word_at_position(word_pos)) }

\* The outcome o with the price a pass reached written back to the pool.
CommitStoring(o, n) ==
  /\ pc' = o.pc
  /\ result' = o.result
  /\ current_state' = o.current_state
  /\ word' = o.word
  /\ step' = o.step
  /\ calls' = o.calls
  /\ swap_call' = o.swap_call
  /\ iter' = IF o.pc = "loop" THEN n % IterMod ELSE 0
  /\ pool' = IF o.pc = "loop"
             THEN [pool EXCEPT !.sqrt_price_x96 = o.current_state.sqrt_price_x96]
             ELSE pool
  /\ UNCHANGED <<overflow_checks, probe>>

\* The state of the call becomes the outcome o.
Commit(o, n) ==
  /\ pc' = o.pc
  /\ result' = o.result
  /\ current_state' = o.current_state
  /\ word' = o.word
  /\ step' = o.step
  /\ calls' = o.calls
  /\ swap_call' = o.swap_call
  /\ iter' = IF o.pc = "loop" THEN n % IterMod ELSE 0
  /\ UNCHANGED <<pool, overflow_checks, probe>>

\* simulate_swap is called (lines 52-79).  A call that repeats the one that
\* has just returned keeps that one's lookups and result in prev.
Call(zero_for_one, amount_in) ==
  /\ pc \in {"idle", "done"}
  /\ args' = [zero_for_one |-> zero_for_one, amount_in |-> amount_in]
  /\ prev' = IF pc = "done" /\ args = args'
             THEN [set |-> TRUE, calls |-> calls, result |-> result]
             ELSE NoPrev
  /\ \E o \in Enter(pool, amount_in,
                    position(calculate_compressed(pool.tick, pool.tick_spacing))[1]) :
       Commit(o, 0)

\* One pass of the while loop (lines 81-182).
Iterate ==
  /\ pc = "loop"
  /\ LoopCondition
  /\ \E o \in Invoke("LoopPass", <<pool, args.zero_for_one, current_state, word,
                                   calls, swap_call, overflow_checks>>) :
       Commit(o, iter + 1)
  /\ UNCHANGED <<args, prev>>

\* Line 184, with the negation computed.
Returned(amount) ==
  IF amount.ok THEN Ok(i256_to_u256(amount.v)) ELSE amount

\* The loop has ended (line 184).
Return ==
  /\ pc = "loop"
  /\ ~LoopCondition
  /\ Commit(Finished(Returned(Neg256(current_state.amount_calculated,
                                     overflow_checks)),
                     calls, swap_call), 0)
  /\ UNCHANGED <<args, prev>>

Next ==
  \/ \E u \in Updates : Update(u[1], u[2], u[3])
  \/ \E zero_for_one \in BOOLEAN, amount_in \in Amounts : Call(zero_for_one, amount_in)
  \/ Iterate
  \/ Return

Spec == Init /\ [][Next]_vars

(***************************************************************************)
(* simulate_swap is one synchronous call on one thread: once it is in the  *)
(* loop it is never suspended, so the thread takes its next step, a pass   *)
(* (Iterate) or the return (Return).  These are the only steps of Next     *)
(* from pc = "loop" and each of them changes pc or iter, so the fairness   *)
(* is stated on these two variables: Running is enabled exactly when       *)
(* pc = "loop", where Iterate or Return is enabled.                        *)
(***************************************************************************)
Running ==
  /\ pc = "loop"
  /\ \E p \in {"loop", "done"}, n \in 0..(IterMod - 1) :
       pc' = p /\ iter' = n /\ (p # pc \/ n # iter)

FairSpec == Spec /\ WF_<<pc, iter>>(Running)

TypeOK == pc \in {"idle", "loop", "done"}

(***************************************************************************)
(* The library functions called directly.  A probe holds the function,     *)
(* its arguments and, once Apply has run, its result; the pool is          *)
(* Math::default() and no call of simulate_swap is made.                   *)
(***************************************************************************)
\* Words have at most MaxWordBits bits set among the sampled positions.
MaxWordBits == 2

\* compressed lies in the words -MaxWordPos .. MaxWordPos of the bitmap.
MaxWordPos == 1

\* The bit positions sampled: both ends, both sides of the middle, and 70.
BitSamples == {0, 70, 127, 128, 255}

\* The sum of the powers of two of a set of bit positions.
BitsOf(S) == Norm([i \in 1..32 |->
                     Sum([b \in {c \in S : c \div LimbBits = i - 1} |->
                            2^(b % LimbBits)])])

Words ==
  {BitsOf(S) : S \in {T \in SUBSET BitSamples : Cardinality(T) <= MaxWordBits}}
  \cup {MaxU256, Not256(BitsOf({3}))}

\* Every power of two, every run of ones from bit 0, every run of ones up to
\* bit 255, and the sampled words (zero among them).
BitInputs ==
  {UShl(<<1>>, i) : i \in 0..255}
  \cup {USub(UShl(<<1>>, i), <<1>>) : i \in 1..256}
  \cup {Not256(USub(UShl(<<1>>, i), <<1>>)) : i \in 0..255}
  \cup Words

TickSpacings == {1, 10, 60}

\* <<bit_pos, word, tick_spacing, lte, compressed>>, with bit_pos the place of
\* compressed in its word, as position() gives it.
TickInputs ==
  {<<bit_pos, w, tick_spacing, lte, bit_pos + 256 * k>> :
     bit_pos \in BitSamples \cup {1, 254}, w \in Words,
     tick_spacing \in TickSpacings, lte \in BOOLEAN,
     k \in (-MaxWordPos)..MaxWordPos}

\* A call about to be made: `before` holds the calls made before it.
Probe(fn, input) ==
  [fn |-> fn, input |-> input, output |-> NoResult, before |-> <<>>]

\* Compressed ticks handed to position: those around zero, and both sides of
\* every power of two up to the ends of i24.
PositionInputs ==
  (-600..600)
  \cup {s * 2^k + d : s \in {-1, 1}, k \in 8..22, d \in {-1, 0, 1}}
  \cup {-(2^23), 1 - 2^23, 2^23 - 1}

\* Providers handed to the search: one without a word, the bitmap of the
\* swaps, one whose word -1 is full beside a word 0 that is empty, full, or
\* has bit 0 or bit 255 alone, and one that fails at word 0.
Providers ==
  {<<>>, [p \in DOMAIN TickBitmap |-> Ok(TickBitmap[p])],
   (0 :> Err("provider: timeout"))}
  \cup {(-1 :> Ok(MaxU256)) @@ (0 :> Ok(w)) :
          w \in {<<>>, <<1>>, BitsOf({255}), MaxU256}}

\* <<tick, tick_spacing, lte, data_provider>>: the ticks on both sides of the
\* ends of the words -1, 0 and 1, in every direction and spacing.
ProviderInputs ==
  {<<tick, tick_spacing, lte, data_provider>> :
     tick \in {-257, -256, -255, -61, -60, -2, -1, 0, 1, 59, 60, 254, 255, 256, 511, 512},
     tick_spacing \in TickSpacings, lte \in BOOLEAN,
     data_provider \in Providers}

Probes ==
  {Probe(fn, <<x>>) :
     fn \in {"most_significant_bit", "least_significant_bit"}, x \in BitInputs}
  \cup {Probe("next_initialized_tick_within_one_word", x) : x \in TickInputs}
  \cup {Probe("position", <<tick>>) : tick \in PositionInputs}
  \cup {Probe("next_initialized_tick_within_one_word_from_provider", x) :
          x \in ProviderInputs}

PureInit ==
  /\ pool = Math(0, <<>>, <<>>, 0, 0)
  /\ overflow_checks \in BOOLEAN
  /\ pc = "idle"
  /\ args = NoArgs
  /\ current_state = NoState
  /\ word = <<>>
  /\ step = NoStep
  /\ swap_call = NoSwapCall
  /\ iter = 0
  /\ calls = <<>>
  /\ result = NoResult
  /\ prev = NoPrev
  /\ probe \in Probes

\* The function is called.
Apply ==
  /\ probe.output = NoResult
  /\ probe' = [probe EXCEPT !.output = Invoke(probe.fn, probe.input)]
  /\ UNCHANGED <<pool, overflow_checks, pc, args, current_state, word, step,
                 swap_call, iter, calls, result, prev>>

PureNext == Apply

PureSpec == PureInit /\ [][PureNext]_vars

(***************************************************************************)
(* tick_math called directly.  A caller may follow a call by another: the  *)
(* price of the next tick, the tick of the price just returned, or the     *)
(* price of the tick just returned.                                        *)
(***************************************************************************)
\* The ticks 2^k and -2^k are sampled for k up to MaxTickExp.
MaxTickExp == 19

\* i32::MAX.
MaxI32 == 2147483647

\* Both ends of i32, both sides of both ends of the tick range, the ticks of
\* the pools, and the ticks with one bit set.
TickSamples ==
  {MinI32, MinI32 + 1, MIN_TICK - 1, MIN_TICK, MIN_TICK + 1, -257, -60, -3, 0, 3,
   50, 60, 255, MAX_TICK - 1, MAX_TICK, MAX_TICK + 1, MaxI32 - 1, MaxI32}
  \cup {2^k : k \in 0..MaxTickExp} \cup {-(2^k) : k \in 0..MaxTickExp}

\* 79426470787362580746886972461, the price of tick 50
PriceOfTick50 ==
  FromBytes(<<\h01, \h00, \ha4, \h09, \h69, \h06, \h97, \h6f, \h10, \h80, \hc4, \h04, \h2d>>)

\* Both sides of both ends of the price range, both sides of 2^96, the prices
\* of the pools, the ends of u160 and u256, and every power of two from 2^32
\* to 2^161 with the number below it.
PriceSamples ==
  {<<>>, <<1>>, USub(MIN_SQRT_RATIO, <<1>>), MIN_SQRT_RATIO,
   UAdd(MIN_SQRT_RATIO, <<1>>), USub(UShl(<<1>>, 96), <<1>>), UShl(<<1>>, 96),
   UAdd(UShl(<<1>>, 96), <<1>>), PriceOfTick50,
   USub(MAX_SQRT_RATIO, <<1>>), MAX_SQRT_RATIO, UAdd(MAX_SQRT_RATIO, <<1>>),
   UShl(<<1>>, 160), MaxU256}
  \cup {m.sqrt_price_x96 : m \in Pools} \cup {u[2] : u \in Updates}
  \cup {UShl(<<1>>, k) : k \in 32..161}
  \cup {USub(UShl(<<1>>, k), <<1>>) : k \in 32..161}

TickProbes ==
  {Probe("get_sqrt_ratio_at_tick", <<t>>) : t \in TickSamples}
  \cup {Probe("get_tick_at_sqrt_ratio", <<p>>) : p \in PriceSamples}

\* The calls that may follow the call `p`, which has returned.
TickAfterRatio(p) ==
  (IF /\ p.input[1] # MaxI32
      /\ \/ p.before = <<>>
         \/ Len(p.before) = 1 /\ p.before[1].fn = "get_tick_at_sqrt_ratio"
   THEN {<<"get_sqrt_ratio_at_tick", <<p.input[1] + 1>>>>} ELSE {})
  \cup (IF p.output.ok /\ p.before = <<>>
        THEN {<<"get_tick_at_sqrt_ratio", <<p.output.v>>>>} ELSE {})

TickAfterTick(p) ==
  IF p.output.ok /\ p.before = <<>>
  THEN {<<"get_sqrt_ratio_at_tick", <<p.output.v>>>>} ELSE {}

TickFollowUps(p) ==
  IF p.fn = "get_sqrt_ratio_at_tick" THEN TickAfterRatio(p)
  ELSE IF p.fn = "get_tick_at_sqrt_ratio" THEN TickAfterTick(p)
  ELSE {}

\* The call made and its result, as later calls remember it.
Made(p) == [fn |-> p.fn, input |-> p.input, output |-> p.output]

ProbeInit(probes) ==
  /\ pool = Math(0, <<>>, <<>>, 0, 0)
  /\ overflow_checks \in BOOLEAN
  /\ pc = "idle"
  /\ args = NoArgs
  /\ current_state = NoState
  /\ word = <<>>
  /\ step = NoStep
  /\ swap_call = NoSwapCall
  /\ iter = 0
  /\ calls = <<>>
  /\ result = NoResult
  /\ prev = NoPrev
  /\ probe \in probes

\* The caller goes on to the call `n`.
Followed(n) ==
  /\ probe' = [fn |-> n[1], input |-> n[2], output |-> NoResult,
               before |-> Append(probe.before, Made(probe))]
  /\ UNCHANGED <<pool, overflow_checks, pc, args, current_state, word, step,
                 swap_call, iter, calls, result, prev>>

TickFollow ==
  /\ probe.output # NoResult
  /\ \E n \in TickFollowUps(probe) : Followed(n)

TickInit == ProbeInit(TickProbes)

TickNext == Apply \/ TickFollow

TickSpec == TickInit /\ [][TickNext]_vars

(***************************************************************************)
(* sqrt_price_math called directly.  A caller may follow a call of         *)
(* get_next_sqrt_price_from_input by the same call with a larger amount.   *)
(***************************************************************************)
\* sqrt_price: zero, one, 2^96, a pool's price, and the ends of u160 and u256.
PricePrices ==
  {<<>>, <<1>>, UShl(<<1>>, 96), MAX_U160, MaxU256}
  \cup {m.sqrt_price_x96 : m \in Pools}

\* liquidity: u128; zero, one, four, a pool's liquidity and u128::MAX.
PriceLiquidities ==
  {<<>>, <<1>>, <<4>>, USub(UShl(<<1>>, 128), <<1>>)}
  \cup {m.liquidity : m \in Pools}

\* amount: zero, one, 10^9, .., both sides of the end of u160, and the last
\* two values of u256.
PriceAmounts ==
  {<<>>, <<1>>, MAX_U160, UAdd(MAX_U160, <<1>>), USub(MaxU256, <<1>>), MaxU256}
  \cup {UPow(U(10^9), k) : k \in 1..MaxAmountExp}

PriceProbes ==
  {Probe(fn, <<sqrt_price, liquidity, amount, flag>>) :
     fn \in {"get_next_sqrt_price_from_input", "get_next_sqrt_price_from_output",
             "get_next_sqrt_price_from_amount_1_rounding_down"},
     sqrt_price \in PricePrices, liquidity \in PriceLiquidities,
     amount \in PriceAmounts, flag \in BOOLEAN}

\* The calls that may follow the call `p`, which has returned.
PriceFollowUps(p) ==
  IF p.fn = "get_next_sqrt_price_from_input" /\ p.before = <<>>
  THEN {<<p.fn, <<p.input[1], p.input[2], amount, p.input[4]>>>> :
          amount \in {a \in PriceAmounts : ULt(p.input[3], a)}}
  ELSE {}

PriceFollow ==
  /\ probe.output # NoResult
  /\ \E n \in PriceFollowUps(probe) : Followed(n)

PriceInit == ProbeInit(PriceProbes)

PriceNext == Apply \/ PriceFollow

PriceSpec == PriceInit /\ [][PriceNext]_vars

(***************************************************************************)
(* compute_swap_step called directly.                                      *)
(***************************************************************************)
\* sqrt_ratio_current_x_96: the lower end of the price range, the price of
\* tick -1 (79224201403219477170569942574) and the prices of the pools.
StepCurrents ==
  {MIN_SQRT_RATIO,
   FromBytes(<<\hff, \hfc, \hb9, \h33, \hbd, \h6f, \had, \h37, \haa, \h2d, \h16, \h2e>>)}
  \cup {m.sqrt_price_x96 : m \in Pools}

\* sqrt_ratio_target_x_96: the same and the upper end of the price range.
StepTargets == StepCurrents \cup {USub(MAX_SQRT_RATIO, <<1>>)}

\* liquidity: one, a pool's liquidity and u128::MAX.
StepLiquidities ==
  {<<1>>, USub(UShl(<<1>>, 128), <<1>>)} \cup {m.liquidity : m \in Pools}

\* amount_remaining: I256; zero, 1, 10^9, .., I256::MAX for an exact input and
\* -1, -10^9, .., I256::MIN for an exact output, and the exact output one
\* short of what lies between the price of tick -1 and MIN_SQRT_RATIO at a
\* liquidity of u128::MAX.
StepAmounts ==
  {<<>>, <<1>>, USub(Two255, <<1>>), MaxU256, Two255,
   WSub(<<1>>, _get_amount_1_delta(MIN_SQRT_RATIO,
                 FromBytes(<<\hff, \hfc, \hb9, \h33, \hbd, \h6f, \had, \h37, \haa, \h2d, \h16, \h2e>>),
                 USub(UShl(<<1>>, 128), <<1>>), FALSE).v)}
  \cup {UPow(U(10^9), k) : k \in 1..MaxAmountExp}
  \cup {WSub(<<>>, UPow(U(10^9), k)) : k \in 1..MaxAmountExp}

\* fee_pips: no fee, 0.3 % and all but one millionth.
StepFees == {0, 3000, 999999}

StepProbes ==
  {Probe("compute_swap_step",
         <<current, target, liquidity, amount_remaining, fee_pips, checks>>) :
     current \in StepCurrents, target \in StepTargets, liquidity \in StepLiquidities,
     amount_remaining \in StepAmounts, fee_pips \in StepFees, checks \in BOOLEAN}

StepInit == ProbeInit(StepProbes) /\ probe.input[6] = overflow_checks

StepNext == Apply

StepSpec == StepInit /\ [][StepNext]_vars

(***************************************************************************)
(* Properties of simulate_swap.                                            *)
(***************************************************************************)
\* C1: every call of simulate_swap terminates: a call that has entered the
\* loop returns, with a value or an error, after finitely many passes.
C1_Terminates == (pc = "loop") ~> (pc = "done")

\* C2: a call with amount_in = 0 returns Ok(0), in either direction and for
\* any pool, and has made no provider lookup.
C2_ZeroAmount ==
  (pc = "done" /\ args.amount_in = <<>>) => (result = Ok(<<>>) /\ calls = <<>>)

C2_ZeroAmountReturned ==
  /\ pc = "done"
  /\ args.amount_in = <<>>
  /\ args.zero_for_one
  /\ result = Ok(<<>>)
  /\ calls = <<>>

\* C3: a provider lookup that fails is the last lookup of the call, and the
\* call returns exactly its error (so never an Ok amount).
C3_ProviderErrorSurfaced ==
  \A i \in 1..Len(calls) :
    ~calls[i].answer.ok =>
      (i = Len(calls) /\ pc = "done" /\ result = calls[i].answer)

C3_NetFetchFailed ==
  /\ pc = "done"
  /\ Len(calls) >= 2
  /\ calls[Len(calls)].fn = "get_liquidity_net_at_tick"
  /\ calls[Len(calls)].answer = Err("provider: not found")
  /\ result = Err("provider: not found")

\* C4: no step of simulate_swap changes a field of the pool (only
\* Math::update, which leaves pc = "idle", does), and a call that repeats
\* the call before it on the same pool, with the same arguments and the same
\* provider answers, returns the same result.
C4_PoolUntouchedAndDeterministic ==
  [][ /\ pc' # "idle" => pool' = pool
      /\ (pc' = "done" /\ prev'.set /\ prev'.calls = calls')
           => result' = prev'.result ]_vars

C4_SameCallRepeated ==
  /\ pc = "done"
  /\ prev.set
  /\ prev.calls = calls
  /\ Len(calls) >= 1
  /\ result.ok
  /\ result = prev.result

C6_ExactInputOnly ==
  swap_call.called => ~IsNegative(swap_call.amount_remaining)

(***************************************************************************)
(* Properties of the library functions.                                    *)
(***************************************************************************)
\* The index of the highest set bit: 2^r <= x < 2^(r+1).
NaiveMsb(x) ==
  CHOOSE r \in 0..255 : ULe(UShl(<<1>>, r), x) /\ ULt(x, UShl(<<1>>, r + 1))

\* The index of the lowest set bit: bit r is set and x mod 2^r = 0.
NaiveLsb(x) ==
  CHOOSE r \in 0..255 :
    /\ UBitAnd(x, UShl(<<1>>, r)) # <<>>
    /\ UShl(UShr(x, r), r) = x

Applied(fn) == probe.fn = fn /\ probe.output # NoResult

\* The result the specification gives for lte = true.
SpecNextLte(bit_pos, masked, tick_spacing, compressed) ==
  IF masked # <<>>
  THEN <<(compressed - (bit_pos - NaiveMsb(masked))) * tick_spacing, TRUE>>
  ELSE <<(compressed - bit_pos) * tick_spacing, FALSE>>

\* The result the specification gives for lte = false.
SpecNextGt(bit_pos, masked, tick_spacing, compressed) ==
  IF masked # <<>>
  THEN <<(compressed + 1 + (NaiveLsb(masked) - bit_pos)) * tick_spacing, TRUE>>
  ELSE <<(compressed + 1 + (255 - bit_pos)) * tick_spacing, FALSE>>

\* C7: with lte = true, initialized holds exactly when the word has a bit set
\* in positions 0..=bit_pos, and next is
\* (compressed - (bit_pos - msb(masked))) * tick_spacing if so and
\* (compressed - bit_pos) * tick_spacing if not.
C7_NextWithinWordLte ==
  (Applied("next_initialized_tick_within_one_word") /\ probe.input[4])
  => probe.output =
       Ok(SpecNextLte(probe.input[1],
                      UBitAnd(probe.input[2],
                              USub(UShl(<<1>>, probe.input[1] + 1), <<1>>)),
                      probe.input[3], probe.input[5]))

\* C8: with lte = false, initialized holds exactly when the word has a bit
\* set in positions bit_pos..=255, and next is
\* (compressed + 1 + (lsb(masked) - bit_pos)) * tick_spacing if so and
\* (compressed + 1 + (255 - bit_pos)) * tick_spacing if not.
C8_NextWithinWordGt ==
  (Applied("next_initialized_tick_within_one_word") /\ ~probe.input[4])
  => probe.output =
       Ok(SpecNextGt(probe.input[1],
                     UBitAnd(probe.input[2],
                             Not256(USub(UShl(<<1>>, probe.input[1]), <<1>>))),
                     probe.input[3], probe.input[5]))

\* C9: for every non-zero x, most_significant_bit(x) is the index of the
\* highest set bit and least_significant_bit(x) the index of the lowest, as
\* a naive scan of the bits finds them.
C9_BitScan ==
  /\ (Applied("most_significant_bit") /\ probe.input[1] # <<>>)
       => probe.output = Ok(NaiveMsb(probe.input[1]))
  /\ (Applied("least_significant_bit") /\ probe.input[1] # <<>>)
       => probe.output = Ok(NaiveLsb(probe.input[1]))

C9_AllOnesScanned ==
  /\ Applied("most_significant_bit")
  /\ probe.input = <<MaxU256>>
  /\ probe.output = Ok(255)

\* C10: most_significant_bit and least_significant_bit fail with ZeroValue
\* on zero, and on zero only: every non-zero input has a result.
C10_ZeroValueOnlyOnZero ==
  (Applied("most_significant_bit") \/ Applied("least_significant_bit"))
  => /\ (probe.output = Err("ZeroValue")) <=> (probe.input[1] = <<>>)
     /\ probe.input[1] # <<>> => probe.output.ok

C10_ZeroRefused ==
  /\ Applied("least_significant_bit")
  /\ probe.input = << <<>> >>
  /\ probe.output = Err("ZeroValue")

(***************************************************************************)
(* Properties of tick_math.                                                *)
(***************************************************************************)
InTickRange(t) == MIN_TICK <= t /\ t <= MAX_TICK

InPriceRange(p) == ULe(MIN_SQRT_RATIO, p) /\ ULt(p, MAX_SQRT_RATIO)

\* C11: get_sqrt_ratio_at_tick(t) fails with the tick-out-of-range error T
\* for every i32 t with |t| > MAX_TICK, the ends of i32 among them, and
\* returns Ok for every t in [MIN_TICK, MAX_TICK].
C11_TickOutOfRange ==
  Applied("get_sqrt_ratio_at_tick")
  => IF InTickRange(probe.input[1]) THEN probe.output.ok
     ELSE probe.output = Err("T")

\* C12: get_sqrt_ratio_at_tick(MIN_TICK) = MIN_SQRT_RATIO,
\* get_sqrt_ratio_at_tick(MAX_TICK) = MAX_SQRT_RATIO and
\* get_sqrt_ratio_at_tick(50) = 79426470787362580746886972461.
C12_ReferenceValues ==
  Applied("get_sqrt_ratio_at_tick")
  => /\ probe.input[1] = MIN_TICK => probe.output = Ok(MIN_SQRT_RATIO)
     /\ probe.input[1] = MAX_TICK => probe.output = Ok(MAX_SQRT_RATIO)
     /\ probe.input[1] = 50 => probe.output = Ok(PriceOfTick50)

\* The call before the last call made.
Last(p) == p.before[Len(p.before)]

\* C13: for every t in [MIN_TICK, MAX_TICK - 1], the price of tick t is at
\* most the price of tick t + 1.
C13_Monotonic ==
  (/\ Applied("get_sqrt_ratio_at_tick")
   /\ probe.before # <<>>
   /\ Last(probe).fn = "get_sqrt_ratio_at_tick"
   /\ Last(probe).input[1] + 1 = probe.input[1]
   /\ InTickRange(Last(probe).input[1])
   /\ InTickRange(probe.input[1]))
  => /\ Last(probe).output.ok
     /\ probe.output.ok
     /\ ULe(Last(probe).output.v, probe.output.v)

\* C14: for every t in [MIN_TICK, MAX_TICK],
\* get_tick_at_sqrt_ratio(get_sqrt_ratio_at_tick(t)) succeeds and is t.
C14_RoundTrip ==
  (/\ Applied("get_tick_at_sqrt_ratio")
   /\ probe.before # <<>>
   /\ Last(probe).fn = "get_sqrt_ratio_at_tick"
   /\ InTickRange(Last(probe).input[1])
   /\ probe.input = <<Last(probe).output.v>>)
  => probe.output = Ok(Last(probe).input[1])

\* C15: for every p in [MIN_SQRT_RATIO, MAX_SQRT_RATIO) the tick t that
\* get_tick_at_sqrt_ratio(p) returns lies in [MIN_TICK, MAX_TICK - 1] and
\* get_sqrt_ratio_at_tick(t) <= p < get_sqrt_ratio_at_tick(t + 1).
C15_TickBracketsPrice ==
  /\ (Applied("get_tick_at_sqrt_ratio") /\ InPriceRange(probe.input[1])
        /\ probe.output.ok)
     => (MIN_TICK <= probe.output.v /\ probe.output.v <= MAX_TICK - 1)
  /\ (/\ Applied("get_sqrt_ratio_at_tick")
      /\ Len(probe.before) = 2
      /\ probe.before[1].fn = "get_tick_at_sqrt_ratio"
      /\ InPriceRange(probe.before[1].input[1]))
     => /\ probe.before[2].output.ok
        /\ probe.output.ok
        /\ ULe(probe.before[2].output.v, probe.before[1].input[1])
        /\ ULt(probe.before[1].input[1], probe.output.v)

\* C16: get_tick_at_sqrt_ratio(p) fails with the price-out-of-range error R
\* exactly when p < MIN_SQRT_RATIO or p >= MAX_SQRT_RATIO, and succeeds for
\* every p in [MIN_SQRT_RATIO, MAX_SQRT_RATIO).
C16_PriceOutOfRange ==
  Applied("get_tick_at_sqrt_ratio")
  => /\ (probe.output = Err("R")) <=> ~InPriceRange(probe.input[1])
     /\ InPriceRange(probe.input[1]) => probe.output.ok

C16_MaxRatioRefused ==
  /\ Applied("get_tick_at_sqrt_ratio")
  /\ probe.input = <<MAX_SQRT_RATIO>>
  /\ probe.output = Err("R")

(***************************************************************************)
(* Properties of sqrt_price_math.                                          *)
(***************************************************************************)
\* C17: get_next_sqrt_price_from_input and get_next_sqrt_price_from_output,
\* in either direction and for any amount, fail with SqrtPriceIsZero when
\* sqrt_price = 0 (also when the liquidity is 0 as well) and with
\* LiquidityIsZero when sqrt_price # 0 and liquidity = 0.
C17_ZeroGuards ==
  (Applied("get_next_sqrt_price_from_input")
   \/ Applied("get_next_sqrt_price_from_output"))
  => /\ probe.input[1] = <<>> => probe.output = Err("SqrtPriceIsZero")
     /\ (probe.input[1] # <<>> /\ probe.input[2] = <<>>)
          => probe.output = Err("LiquidityIsZero")

C17_BothZero ==
  /\ Applied("get_next_sqrt_price_from_input")
  /\ probe.input[1] = <<>>
  /\ probe.input[2] = <<>>
  /\ probe.input[3] = MaxU256
  /\ probe.output = Err("SqrtPriceIsZero")

\* floor(amount * 2^96 / liquidity), without a bound on its size.
ExactQuotient(amount, liquidity) == UDiv(UMul(amount, UShl(<<1>>, 96)), liquidity)

\* C18: get_next_sqrt_price_from_amount_1_rounding_down with add = true and
\* liquidity > 0 returns Ok(p + q), q = floor(amount * 2^96 / liquidity),
\* when the exact sum p + q is at most 2^160 - 1, and fails with
\* SafeCastToU160Overflow when the exact sum is larger (also when it is
\* larger than 2^256 - 1).
C18_Amount1Added ==
  (/\ Applied("get_next_sqrt_price_from_amount_1_rounding_down")
   /\ probe.input[4]
   /\ probe.input[2] # <<>>)
  => IF ULe(UAdd(probe.input[1], ExactQuotient(probe.input[3], probe.input[2])),
            MAX_U160)
     THEN probe.output =
            Ok(UAdd(probe.input[1], ExactQuotient(probe.input[3], probe.input[2])))
     ELSE probe.output = Err("SafeCastToU160Overflow")

\* C19: for fixed p > 0 and liquidity > 0 and amounts d1 <= d2 on which
\* get_next_sqrt_price_from_input succeeds, result(d2) <= result(d1) <= p
\* when zero_for_one and p <= result(d1) <= result(d2) when not.
C19_MonotoneInAmount ==
  (/\ Applied("get_next_sqrt_price_from_input")
   /\ probe.before # <<>>
   /\ Last(probe).output.ok
   /\ probe.output.ok)
  => IF probe.input[4]
     THEN /\ ULe(probe.output.v, Last(probe).output.v)
          /\ ULe(Last(probe).output.v, probe.input[1])
     ELSE /\ ULe(probe.input[1], Last(probe).output.v)
          /\ ULe(Last(probe).output.v, probe.output.v)

(***************************************************************************)
(* Properties of swap_math.                                                *)
(***************************************************************************)
\* |amount_remaining| as an unsigned number.
AbsI256(a) == IF IsNegative(a) THEN USub(Two256, a) ELSE a

\* A call of compute_swap_step that succeeded without reaching the target.
StoppedShort ==
  /\ Applied("compute_swap_step")
  /\ probe.output.ok
  /\ probe.output.v[1] # probe.input[2]

\* C20: when compute_swap_step succeeds with an exact input
\* (amount_remaining >= 0) and sqrt_ratio_next differs from the target,
\* amount_in + fee_amount = amount_remaining, as exact integers.
C20_ExactInSpendsAll ==
  (StoppedShort /\ ~IsNegative(probe.input[4]))
  => UAdd(probe.output.v[2], probe.output.v[4]) = probe.input[4]

\* An exact input of 10^9 at a fee of 0.3 % that stops short of the target
\* and pays a fee.
C20_PartialExactIn ==
  /\ StoppedShort
  /\ probe.input[4] = U(10^9)
  /\ probe.input[5] = 3000
  /\ probe.output.v[2] # <<>>
  /\ probe.output.v[4] # <<>>

\* C20 as stated: when compute_swap_step succeeds and sqrt_ratio_next differs
\* from the target, amount_in + fee_amount <= |amount_remaining|, with
\* equality for an exact input.
C20_InPlusFeeWithinRemaining ==
  StoppedShort
  => /\ ULe(UAdd(probe.output.v[2], probe.output.v[4]), AbsI256(probe.input[4]))
     /\ ~IsNegative(probe.input[4])
          => UAdd(probe.output.v[2], probe.output.v[4]) = probe.input[4]

\* C21: when compute_swap_step succeeds with an exact output
\* (amount_remaining < 0), amount_out <= |amount_remaining|, in either
\* direction and whether or not the target is reached.
C21_OutputClamped ==
  (/\ Applied("compute_swap_step")
   /\ probe.output.ok
   /\ IsNegative(probe.input[4]))
  => ULe(probe.output.v[3], AbsI256(probe.input[4]))

\* An exact output of 1 that stops short of the target and returns exactly 1.
C21_ClampedToOne ==
  /\ StoppedShort
  /\ probe.input[4] = MaxU256
  /\ probe.output.v[3] = <<1>>

(***************************************************************************)
(* Properties of the loop of simulate_swap.                                *)
(***************************************************************************)
\* C22: in the loop of simulate_swap the word held is the provider's word at
\* current_state.word_pos: a word fetched because the position changed is
\* the word of the new position.
C22_WordOfPosition ==
  (pc = "loop") => word = get_word_at_position(current_state.word_pos)

\* A pass of the loop has just ended with the price on the boundary of its
\* step.
AtBoundary ==
  /\ pc = "loop"
  /\ swap_call.called
  /\ current_state.sqrt_price_x96 = step.sqrt_price_next_x96

\* C23: after a pass in which the price reaches the price of tick_next,
\* current_state.tick is tick_next - 1 when zero_for_one and tick_next
\* otherwise, whether or not tick_next is initialized.
C23_TickPastBoundary ==
  AtBoundary
  => current_state.tick = IF args.zero_for_one THEN step.tick_next - 1
                          ELSE step.tick_next

\* The pass just made has crossed an initialized tick: its last lookup is the
\* one of the liquidity delta.
Crossed ==
  /\ Len(calls') > Len(calls)
  /\ calls'[Len(calls')].fn = "get_liquidity_net_at_tick"

\* running = liquidity - net when zero_for_one and liquidity + net otherwise,
\* as exact integers, and running lies in 0 .. 2^128 - 1.
ExactlyCrossed(liquidity, net, zero_for_one, running) ==
  IF net.mag # <<>> /\ net.neg # zero_for_one
  THEN ULe(net.mag, liquidity) /\ running = USub(liquidity, net.mag)
  ELSE running = UAdd(liquidity, net.mag) /\ ULt(running, UShl(<<1>>, 128))

\* C24: a pass after which the loop goes on leaves the liquidity as it was
\* unless it crossed an initialized tick, and then the liquidity is
\* L - liquidity_net (zero_for_one) or L + liquidity_net as an exact integer
\* within 0 .. 2^128 - 1.
C24_LiquidityCrossing ==
  [][(pc = "loop" /\ pc' = "loop")
       => IF Crossed
          THEN ExactlyCrossed(current_state.liquidity,
                              calls'[Len(calls')].answer.v, args.zero_for_one,
                              current_state'.liquidity)
          ELSE current_state'.liquidity = current_state.liquidity]_vars

\* Bit b of a bitmap word.
BitOf(w, b) == UBitAnd(w, UShl(<<1>>, b)) # <<>>

\* The provider's bitmap has the bit of `tick` set.
Initialized(tick, tick_spacing) ==
  /\ tick % tick_spacing = 0
  /\ BitOf(get_word_at_position(position(tick \div tick_spacing)[1]),
           position(tick \div tick_spacing)[2])

\* C25: with zero_for_one = false, a pass whose step reports
\* initialized = true has a tick_next whose bit is set in the provider's
\* bitmap, that is greater than the tick the pass started from, with no
\* initialized tick strictly between the two.
C25_ReportedTickInitialized ==
  [][(pc = "loop" /\ pc' = "loop" /\ ~args.zero_for_one /\ step'.initialized)
       => /\ Initialized(step'.tick_next, pool.tick_spacing)
          /\ step'.tick_next > current_state.tick
          /\ \A t \in (current_state.tick + 1)..(step'.tick_next - 1) :
               ~Initialized(t, pool.tick_spacing)]_vars

(***************************************************************************)
(* Properties of the bit loop of get_sqrt_ratio_at_tick and of position.   *)
(***************************************************************************)
\* (ratio * M_k) >> 128 when bit k of abs_tick is set, ratio otherwise.
MultipliedIfSet(abs_tick, k, ratio) ==
  IF UBitAnd(abs_tick, U(2^k)) # <<>>
  THEN UShr(WMul(ratio, RatioMagic[k]), 128)
  ELSE ratio

\* The ratio after the multipliers of the bits k..19 that are set in
\* abs_tick have been applied, each as (ratio * M_k) >> 128.
RECURSIVE MultipliedBySetBits(_, _, _)
MultipliedBySetBits(abs_tick, k, ratio) ==
  IF Len(ratio) < 0 THEN <<>>
  ELSE IF k = 20 THEN ratio
  ELSE MultipliedBySetBits(abs_tick, k + 1, MultipliedIfSet(abs_tick, k, ratio))

\* C26: for a tick in range, get_sqrt_ratio_at_tick returns the price got by
\* starting from M_0 when bit 0 of |t| is set and from 2^128 otherwise and
\* applying the multiplier of bit k exactly for the k in 1..19 whose bit is
\* set in |t|.
C26_MultipliersOfSetBits ==
  (Applied("get_sqrt_ratio_at_tick") /\ InTickRange(probe.input[1]))
  => probe.output =
       Ok(RatioRound(RatioInvert(probe.input[1],
            MultipliedBySetBits(
              U(IF probe.input[1] < 0 THEN -probe.input[1] ELSE probe.input[1]), 1,
              IF probe.input[1] % 2 = 1 THEN RatioOdd ELSE UShl(<<1>>, 128)))))

\* C27: for every t in [-2^23, 2^23), position(t) = (floor(t / 256),
\* t mod 256) with the second component in 0..255, so that
\* word_pos * 256 + bit_pos = t; t is thus recovered from the pair, which
\* makes the mapping injective on that range.
C27_PositionDecomposes ==
  (/\ Applied("position")
   /\ probe.input[1] >= -(2^23)
   /\ probe.input[1] < 2^23)
  => /\ probe.output = Ok(<<probe.input[1] \div 256, probe.input[1] % 256>>)
     /\ probe.output.v[2] \in 0..255
     /\ probe.output.v[1] * 256 + probe.output.v[2] = probe.input[1]

\* position(-257) = (-2, 255).
C27_NegativeTickPlaced ==
  /\ Applied("position")
  /\ probe.input[1] = -257
  /\ probe.output = Ok(<<-2, 255>>)

\* C28: when compute_swap_step succeeds with an exact input
\* (amount_remaining >= 0) and fee_pips < 10^6,
\* amount_in + fee_amount <= amount_remaining, also when the target is
\* reached.
C28_InputAndFeeWithinRemaining ==
  (/\ Applied("compute_swap_step")
   /\ probe.output.ok
   /\ ~IsNegative(probe.input[4])
   /\ probe.input[5] < 10^6)
  => ULe(UAdd(probe.output.v[2], probe.output.v[4]), probe.input[4])

\* An exact input of 10^18 at a fee of 0.3 % that reaches a target other than
\* the current price and pays a fee.
C28_TargetReachedWithFee ==
  /\ Applied("compute_swap_step")
  /\ probe.output.ok
  /\ probe.input[4] = UPow(U(10^9), 2)
  /\ probe.input[5] = 3000
  /\ probe.input[1] # probe.input[2]
  /\ probe.output.v[1] = probe.input[2]
  /\ probe.output.v[4] # <<>>

\* The amount that takes the price to the target: the input of lines 39-43,
\* rounded up, or the output of lines 56-60, rounded down.
AmountToTarget(current, target, liquidity, exact_in) ==
  IF ULe(target, current)
  THEN IF exact_in
       THEN Invoke("_get_amount_0_delta", <<target, current, liquidity, TRUE>>)
       ELSE Invoke("_get_amount_1_delta", <<target, current, liquidity, FALSE>>)
  ELSE IF exact_in
       THEN Invoke("_get_amount_1_delta", <<current, target, liquidity, TRUE>>)
       ELSE Invoke("_get_amount_0_delta", <<current, target, liquidity, FALSE>>)

\* What the step may spend: the input less the fee, or the output wanted.
AmountForStep(amount_remaining, fee_pips, checks) ==
  IF IsNegative(amount_remaining) THEN Neg256(amount_remaining, checks)
  ELSE LessFee(amount_remaining, FeeComplement(fee_pips, checks))

\* The remaining amount of the call applied suffices to reach its target.
RemainingSuffices ==
  \E need \in {AmountToTarget(probe.input[1], probe.input[2], probe.input[3],
                              ~IsNegative(probe.input[4]))},
     have \in {AmountForStep(probe.input[4], probe.input[5], probe.input[6])} :
    need.ok /\ have.ok /\ ULe(need.v, have.v)

\* sqrt_ratio_next_x_96 of the call applied lies between the current price
\* and the target, both included.
NextWithinStep ==
  IF ULe(probe.input[2], probe.input[1])
  THEN ULe(probe.input[2], probe.output.v[1]) /\ ULe(probe.output.v[1], probe.input[1])
  ELSE ULe(probe.input[1], probe.output.v[1]) /\ ULe(probe.output.v[1], probe.input[2])

\* C29: on every successful call of compute_swap_step the returned price lies
\* between the current price and the target inclusive, and it equals the
\* target exactly when the remaining amount suffices to reach the target.
C29_TargetExactlyWhenSuffices ==
  (Applied("compute_swap_step") /\ probe.output.ok)
  => (NextWithinStep /\ (probe.output.v[1] = probe.input[2] <=> RemainingSuffices))

\* An exact output one short of what lies before the target that reaches the
\* target all the same.
C29_TargetReachedOneShort ==
  /\ Applied("compute_swap_step")
  /\ probe.output.ok
  /\ IsNegative(probe.input[4])
  /\ probe.input[1] # probe.input[2]
  /\ probe.output.v[1] = probe.input[2]
  /\ ~RemainingSuffices

\* C29, as the code has it: the returned price lies between the current
\* price and the target inclusive; it is the target whenever the remaining
\* amount suffices to reach it and, for an exact input, only then.
C29_NeverOvershoots ==
  (Applied("compute_swap_step") /\ probe.output.ok)
  => /\ NextWithinStep
     /\ RemainingSuffices => probe.output.v[1] = probe.input[2]
     /\ (probe.output.v[1] = probe.input[2] /\ ~IsNegative(probe.input[4]))
        => RemainingSuffices

\* An exact input that stops strictly between the current price and the
\* target, and an amount that does not suffice.
C29_StoppedBetween ==
  /\ StoppedShort
  /\ ~IsNegative(probe.input[4])
  /\ probe.output.v[1] # probe.input[1]
  /\ NextWithinStep
  /\ ~RemainingSuffices

(***************************************************************************)
(* Properties of the two searches of tick_bitmap.                          *)
(***************************************************************************)
\* next_initialized_tick_within_one_word called the way simulate_swap calls
\* it (lib.rs 90-104), with the provider's word at the position of
\* compressed.
NextAsSimulateSwap(tick, tick_spacing, lte, data_provider) ==
  LET compressed == calculate_compressed(tick, tick_spacing)
      pos == position(compressed)
      answer == Entry(data_provider, pos[1], Ok(<<>>))
  IN  IF ~answer.ok THEN answer
      ELSE next_initialized_tick_within_one_word(pos[2], answer.v, tick_spacing,
                                                 lte, compressed)

\* C30: for every tick, tick_spacing > 0, direction lte and provider,
\* next_initialized_tick_within_one_word_from_provider returns the same
\* (next, initialized) as next_initialized_tick_within_one_word called the way
\* simulate_swap calls it.
C30_SearchesAgree ==
  Applied("next_initialized_tick_within_one_word_from_provider")
  => probe.output = NextAsSimulateSwap(probe.input[1], probe.input[2],
                                       probe.input[3], probe.input[4])

====
